---------------------------- MODULE Spec2Model ----------------------------
(***************************************************************************)
(* Resolution and governance engine of the Librarian backend:              *)
(*   - similarity engine          (app/entity_resolution/similarity.py)    *)
(*   - entity resolver            (app/entity_resolution/resolver.py)      *)
(*   - predicate registry         (app/schema/predicate_registry.py)       *)
(*   - extraction run with the global entity matcher                       *)
(*                                (app/services/extraction.py)             *)
(*   - schema stabilization       (app/services/schema_stabilization.py)   *)
(* Texts are TLA+ strings; every text operation works on the characters.   *)
(* Similarity scores are exact rationals <<numerator, denominator>>.       *)
(***************************************************************************)
EXTENDS Integers, Sequences, FiniteSets, TLC

(***************************************************************************)
(* Characters and Python string primitives                                 *)
(***************************************************************************)
\* The characters texts are written in, in code-point order.
Alphabet == " !&,-.0123456789:?ABCDEFGHIJKLMNOPQRSTUVWXYZ_abcdefghijklmnopqrstuvwxyz"
UpperLetters == "ABCDEFGHIJKLMNOPQRSTUVWXYZ"
LowerLetters == "abcdefghijklmnopqrstuvwxyz"
Digits == "0123456789"

\* forces one evaluation of a constant function
Memo(f) == IF f = f THEN f ELSE f

CharSet(s) == {SubSeq(s, i, i) : i \in 1..Len(s)}
IndexIn(s, c) == CHOOSE i \in 1..Len(s) : SubSeq(s, i, i) = c

\* ord(c), up to an order-preserving renumbering
OrdOf == Memo([c \in CharSet(Alphabet) |-> IndexIn(Alphabet, c)])
Ord(c) == OrdOf[c]

UpperChars == CharSet(UpperLetters)
LowerChars == CharSet(LowerLetters)
LowerAlnumChars == CharSet(LowerLetters) \cup CharSet(Digits)

IsUpper(c) == c \in UpperChars
IsLowerAlnum(c) == c \in LowerAlnumChars
IsSpace(c) == c = " "

CharAt(s, i) == SubSeq(s, i, i)

\* c.lower() for the upper-case letters
LowerOfUpper == Memo([c \in UpperChars |-> CharAt(LowerLetters, IndexIn(UpperLetters, c))])

LowerChar(c) == IF IsUpper(c) THEN LowerOfUpper[c] ELSE c

RECURSIVE Join(_)
\* "".join(cs) for a sequence of strings
Join(cs) == IF cs = <<>> THEN "" ELSE Head(cs) \o Join(Tail(cs))

\* str.lower()
StrLower(s) == Join([i \in 1..Len(s) |-> LowerChar(SubSeq(s, i, i))])

RECURSIVE SplitFrom(_, _, _)
\* str.split(): the maximal runs of non-space characters, in order
SplitFrom(s, i, cur) ==
    IF i > Len(s) THEN (IF cur = "" THEN <<>> ELSE <<cur>>)
    ELSE IF IsSpace(SubSeq(s, i, i))
         THEN (IF cur = "" THEN <<>> ELSE <<cur>>) \o SplitFrom(s, i + 1, "")
         ELSE SplitFrom(s, i + 1, cur \o SubSeq(s, i, i))

Split(s) == SplitFrom(s, 1, "")

RECURSIVE JoinWith(_, _)
\* sep.join(parts)
JoinWith(sep, parts) ==
    IF parts = <<>> THEN ""
    ELSE IF Len(parts) = 1 THEN parts[1]
    ELSE parts[1] \o sep \o JoinWith(sep, Tail(parts))

RECURSIVE LStrip(_)
LStrip(s) == IF Len(s) > 0 /\ IsSpace(SubSeq(s, 1, 1)) THEN LStrip(SubSeq(s, 2, Len(s))) ELSE s

RECURSIVE RStrip(_)
RStrip(s) == IF Len(s) > 0 /\ IsSpace(SubSeq(s, Len(s), Len(s)))
             THEN RStrip(SubSeq(s, 1, Len(s) - 1)) ELSE s

\* str.strip()
Strip(s) == LStrip(RStrip(s))

\* re.sub(r"\s+", " ", s): every run of white space becomes one space
RECURSIVE CollapseFrom(_, _, _)
CollapseFrom(s, i, inSpace) ==
    IF i > Len(s) THEN ""
    ELSE IF IsSpace(SubSeq(s, i, i))
         THEN (IF inSpace THEN "" ELSE " ") \o CollapseFrom(s, i + 1, TRUE)
         ELSE SubSeq(s, i, i) \o CollapseFrom(s, i + 1, FALSE)

CollapseSpaces(s) == CollapseFrom(s, 1, FALSE)

\* Python's < on strings (code-point order)
RECURSIVE StrLess(_, _)
StrLess(a, b) ==
    IF Len(b) = 0 THEN FALSE
    ELSE IF Len(a) = 0 THEN TRUE
    ELSE IF SubSeq(a, 1, 1) = SubSeq(b, 1, 1)
         THEN StrLess(SubSeq(a, 2, Len(a)), SubSeq(b, 2, Len(b)))
         ELSE Ord(SubSeq(a, 1, 1)) < Ord(SubSeq(b, 1, 1))

RECURSIVE SortedStrs(_)
\* sorted(set_of_strings)
SortedFrom(S, m) == <<m>> \o SortedStrs(S \ {m})
SortedStrs(S) ==
    IF S = {} THEN <<>>
    ELSE SortedFrom(S, CHOOSE x \in S : \A y \in S : y = x \/ StrLess(x, y))

Range(f) == {f[i] : i \in DOMAIN f}

(***************************************************************************)
(* Rationals                                                               *)
(***************************************************************************)
\* None where a text is expected
NoneVal == "__None__"

\* an optional id: None is <<>>, the id i is <<i>>
NoId == <<>>
SomeId(i) == <<i>>

Rat(n, d) == <<n, d>>
RatGe(a, b) == a[1] * b[2] >= b[1] * a[2]
RatGt(a, b) == a[1] * b[2] > b[1] * a[2]
RatEq(a, b) == a[1] * b[2] = b[1] * a[2]
RatMax(a, b) == IF RatGt(b, a) THEN b ELSE a
Zero == Rat(0, 1)
One == Rat(1, 1)

(***************************************************************************)
(* Similarity engine (app/entity_resolution/similarity.py)                 *)
(***************************************************************************)
\* _NON_ALNUM_RE.sub("", s): only [a-z0-9] and white space stay
KeepChar(c) == IF IsLowerAlnum(c) \/ IsSpace(c) THEN c ELSE ""
RemoveNonAlnum(s) == Join([i \in 1..Len(s) |-> KeepChar(SubSeq(s, i, i))])

\* normalize_entity_text
normalize_entity_text(value) ==
    Strip(CollapseSpaces(RemoveNonAlnum(CollapseSpaces(StrLower(Strip(value))))))

TokenSet(s) == Range(Split(s))

Jaccard(lt, rt) ==
    IF lt = {} \/ rt = {} THEN Zero
    ELSE Rat(Cardinality(lt \cap rt), Cardinality(lt \cup rt))

\* token_set_similarity
token_set_similarity(left, right) ==
    Jaccard(TokenSet(normalize_entity_text(left)), TokenSet(normalize_entity_text(right)))

RECURSIVE common_run(_, _, _, _, _, _)
\* the length of the longest common run starting at a[i] and b[j]
common_run(a, b, i, j, ahi, bhi) ==
    IF i > ahi \/ j > bhi THEN 0
    ELSE IF SubSeq(a, i, i) # SubSeq(b, j, j) THEN 0
    ELSE 1 + common_run(a, b, i + 1, j + 1, ahi, bhi)

\* of the non-empty blocks <<i, j, k>> the longest; of the longest the one
\* starting earliest in a, then earliest in b; <<alo, blo, 0>> if there is none
BestBlock(blocks, alo, blo) ==
    IF blocks = {} THEN <<alo, blo, 0>>
    ELSE CHOOSE t \in blocks : \A u \in blocks :
           \/ t[3] > u[3]
           \/ (t[3] = u[3] /\ t[1] < u[1])
           \/ (t[3] = u[3] /\ t[1] = u[1] /\ t[2] <= u[2])

\* difflib.SequenceMatcher.find_longest_match (no junk) inside a[alo..ahi], b[blo..bhi]
find_longest_match(a, b, alo, ahi, blo, bhi) ==
    BestBlock({t \in {<<i, j, common_run(a, b, i, j, ahi, bhi)>> : i \in alo..ahi, j \in blo..bhi} :
                 t[3] > 0}, alo, blo)

RECURSIVE matching_count(_, _, _, _, _, _)
\* the match m = <<i, j, k>>, then recursively the pieces to its left and to its right
MatchAround(a, b, alo, ahi, blo, bhi, m) ==
    IF m[3] = 0 THEN 0
    ELSE m[3]
         + matching_count(a, b, alo, m[1] - 1, blo, m[2] - 1)
         + matching_count(a, b, m[1] + m[3], ahi, m[2] + m[3], bhi)

\* the total size of SequenceMatcher.get_matching_blocks()
matching_count(a, b, alo, ahi, blo, bhi) ==
    IF alo > ahi \/ blo > bhi THEN 0
    ELSE MatchAround(a, b, alo, ahi, blo, bhi, find_longest_match(a, b, alo, ahi, blo, bhi))

\* SequenceMatcher(a=a, b=b).ratio() = 2.0 * matches / (len(a) + len(b))
sequence_ratio(a, b) ==
    IF Len(a) + Len(b) = 0 THEN One
    ELSE Rat(2 * matching_count(a, b, 1, Len(a), 1, Len(b)), Len(a) + Len(b))

\* string_similarity, from the two normalized forms on
SimilarityOfNormalized(nl, nr) ==
    IF nl = "" \/ nr = "" THEN Zero
    ELSE IF nl = nr THEN One
    ELSE RatMax(sequence_ratio(nl, nr), token_set_similarity(nl, nr))

\* string_similarity
string_similarity(left, right) ==
    SimilarityOfNormalized(normalize_entity_text(left), normalize_entity_text(right))

(***************************************************************************)
(* Label normalizers                                                       *)
(***************************************************************************)
RECURSIVE LStripChars(_, _)
LStripChars(s, cs) == IF Len(s) > 0 /\ SubSeq(s, 1, 1) \in cs
                      THEN LStripChars(SubSeq(s, 2, Len(s)), cs) ELSE s

RECURSIVE RStripChars(_, _)
RStripChars(s, cs) == IF Len(s) > 0 /\ SubSeq(s, Len(s), Len(s)) \in cs
                      THEN RStripChars(SubSeq(s, 1, Len(s) - 1), cs) ELSE s

\* str.strip(chars)
StripChars(s, cs) == LStripChars(RStripChars(s, cs), cs)

EndsWith(s, suffix) ==
    Len(s) >= Len(suffix) /\ SubSeq(s, Len(s) - Len(suffix) + 1, Len(s)) = suffix

\* re.sub(r"[^a-z0-9]+", "_", s)
RECURSIVE SnakeFrom(_, _, _)
SnakeFrom(s, i, inRun) ==
    IF i > Len(s) THEN ""
    ELSE IF IsLowerAlnum(SubSeq(s, i, i))
         THEN SubSeq(s, i, i) \o SnakeFrom(s, i + 1, FALSE)
         ELSE (IF inRun THEN "" ELSE "_") \o SnakeFrom(s, i + 1, TRUE)

\* _singularize_token
singularize_token(token) ==
    IF Len(token) <= 4 THEN token
    ELSE IF EndsWith(token, "ies") THEN SubSeq(token, 1, Len(token) - 3) \o "y"
    ELSE IF EndsWith(token, "ss") \/ EndsWith(token, "us") \/ EndsWith(token, "is") THEN token
    ELSE IF EndsWith(token, "s") THEN SubSeq(token, 1, Len(token) - 1)
    ELSE token

\* value.rsplit("_", 1) at the last underscore k
SingularizeTail(value, k) ==
    SubSeq(value, 1, k - 1) \o "_" \o singularize_token(SubSeq(value, k + 1, Len(value)))

SingularizeAt(value, cuts) ==
    IF cuts = {} THEN singularize_token(value)
    ELSE SingularizeTail(value, CHOOSE i \in cuts : \A j \in cuts : j <= i)

\* _singularize_last_token
singularize_last_token(value) ==
    SingularizeAt(value, {i \in 1..Len(value) : SubSeq(value, i, i) = "_"})

SnakeCase(cleaned) ==
    IF cleaned = "" THEN ""
    ELSE singularize_last_token(StripChars(SnakeFrom(StrLower(cleaned), 1, FALSE), {"_"}))

\* normalize_predicate_label
normalize_predicate_label(value) ==
    IF value = "" THEN ""
    ELSE SnakeCase(StripChars(CollapseSpaces(value), {" ", ".", ",", ":", ";", "'"}))

\* _normalize_schema_label
normalize_schema_label(value) == JoinWith(" ", Split(Strip(value)))

(***************************************************************************)
(* Bounds and input sets                                                   *)
(***************************************************************************)
\* register calls made in one behaviour of SpecRegistry
MaxRegisterCalls == 4

\* label observations and stabilization runs made in one behaviour of SpecStabilize
MaxObservations == 3
MaxStabilizeRuns == 2

\* entities in one batch handed to resolve in SpecResolve
MaxBatch == 3

\* extraction runs made in one behaviour of Spec
MaxExtractionRuns == 2

\* the raw labels handed to register
RegisterValues == {"Reported Revenues", "reported_revenue", "reported_revenuee",
                   "report_revenue", "impacted-by", ""}

PredicateKinds == {"fact_predicate", "relation_type"}

\* every label the registry can hold under RegisterValues
RegistryLabels ==
    {normalize_predicate_label(v) : v \in RegisterValues} \cup {"unknown_predicate", "unknown_relation"}

\* the labels observed per registry
SchemaLabels ==
    [schema_fields |-> {"services_revenue", "service_revenue", "service_revenues"},
     schema_relations |-> {"impacted_by", "impactedby", "owns"},
     schema_nodes |-> {"Organization", "organization", "Organizations"}]

\* the entities an extractor returns: name, type label (None when absent), aliases
ExtractedEntities ==
    {[name |-> "Acme", type_label |-> NoneVal, aliases |-> <<>>],
     [name |-> "Acme", type_label |-> "Company", aliases |-> <<>>],
     [name |-> "ACME", type_label |-> "Company", aliases |-> <<>>],
     [name |-> "acme", type_label |-> "Company", aliases |-> <<>>],
     [name |-> "Globex Holding", type_label |-> "Company", aliases |-> <<>>],
     [name |-> "Globex Holding", type_label |-> "Company", aliases |-> <<"Acme">>],
     [name |-> "Globex Holding", type_label |-> "Unspecified", aliases |-> <<>>],
     [name |-> "Globex Holdings", type_label |-> "Company", aliases |-> <<>>],
     [name |-> "Globex Holdings", type_label |-> NoneVal, aliases |-> <<>>],
     [name |-> "Globex Holdings", type_label |-> NoneVal, aliases |-> <<"Acme">>],
     [name |-> "Acme Holding", type_label |-> NoneVal, aliases |-> <<>>],
     [name |-> "Acme Holding", type_label |-> NoneVal, aliases |-> <<"Acme">>]}

\* the conversations extraction runs on
Conversations == {"X", "Y"}

PostProcessingModes == {"inline", "none"}

\* what the extractor returns for a conversation
ExtractionResults ==
    {[entities |-> <<[name |-> "Acme", type_label |-> NoneVal, aliases |-> <<>>]>>,
      facts |-> <<[entity_name |-> "Acme", field_label |-> "Reported Revenues"]>>,
      relations |-> <<>>],
     [entities |-> <<[name |-> "Globex Holdings", type_label |-> NoneVal, aliases |-> <<"Acme">>],
                     [name |-> "Globex Holding", type_label |-> "Unspecified", aliases |-> <<>>]>>,
      facts |-> <<[entity_name |-> "Globex Holding", field_label |-> "reported_revenue"]>>,
      relations |-> <<[from_entity |-> "Globex Holding", relation_label |-> "impacted-by",
                       to_entity |-> "Globex Holdings"]>>],
     [entities |-> <<[name |-> "Acme", type_label |-> NoneVal, aliases |-> <<>>],
                     [name |-> "Globex Holding", type_label |-> "Unspecified", aliases |-> <<>>]>>,
      facts |-> <<>>,
      relations |-> <<[from_entity |-> "Acme", relation_label |-> "impacted-by",
                       to_entity |-> "Globex Holding"]>>],
     [entities |-> <<[name |-> "Globex Holdings", type_label |-> NoneVal, aliases |-> <<"Acme">>]>>,
      facts |-> <<[entity_name |-> "Acme", field_label |-> "report_revenue"]>>,
      relations |-> <<>>],
     [entities |-> <<[name |-> "Acme", type_label |-> "Company", aliases |-> <<>>],
                     [name |-> "ACME", type_label |-> "Company", aliases |-> <<>>],
                     [name |-> "Globex Holding", type_label |-> "Company", aliases |-> <<"Acme">>]>>,
      facts |-> <<[entity_name |-> "ACME", field_label |-> "reported_revenuee"]>>,
      relations |-> <<>>],
     [entities |-> <<[name |-> "Acme Holding", type_label |-> NoneVal, aliases |-> <<>>]>>,
      facts |-> <<>>,
      relations |-> <<>>],
     [entities |-> <<[name |-> "Acme Holding", type_label |-> NoneVal, aliases |-> <<"Acme">>]>>,
      facts |-> <<>>,
      relations |-> <<>>],
     [entities |-> <<[name |-> "Globex Holding", type_label |-> "Unspecified", aliases |-> <<>>],
                     [name |-> "Globex Holdings", type_label |-> NoneVal, aliases |-> <<"Acme">>]>>,
      facts |-> <<>>,
      relations |-> <<>>]}

\* every name or alias of an extracted entity
EntityNames ==
    UNION {{e.name} \cup Range(e.aliases) : e \in ExtractedEntities}

\* normalize_entity_text over EntityNames, evaluated once
NormalizedNames == Memo([n \in EntityNames |-> normalize_entity_text(n)])

\* the type labels entities are stored with
EntityTypeLabels == ({e.type_label : e \in ExtractedEntities} \ {NoneVal}) \cup {"Unspecified"}

\* str.lower() over the names and type labels of entities, evaluated once
LoweredTexts == Memo([t \in EntityNames \cup EntityTypeLabels |-> StrLower(t)])

\* str.lower() of a name or type label
Lower(text) == IF text \in DOMAIN LoweredTexts THEN LoweredTexts[text] ELSE StrLower(text)

\* the labels string_similarity is compared about
LabelTexts ==
    RegistryLabels \cup SchemaLabels.schema_fields \cup SchemaLabels.schema_relations
                   \cup SchemaLabels.schema_nodes
                   \cup EntityTypeLabels

\* the names string_similarity is compared about, as written and normalized
NameTexts == EntityNames \cup Range(NormalizedNames)

\* string_similarity over the labels and over the names, evaluated once
SimilarityTable ==
    Memo([p \in (LabelTexts \X LabelTexts) \cup (NameTexts \X NameTexts) |->
            string_similarity(p[1], p[2])])

label_similarity(a, b) == SimilarityTable[<<a, b>>]

(***************************************************************************)
(* Predicate registry (app/schema/predicate_registry.py)                   *)
(***************************************************************************)
REGISTRY_SIMILARITY_THRESHOLD == Rat(96, 100)

\* order_by(frequency.desc(), predicate.asc())
EntryBefore(e1, e2) ==
    \/ e1.frequency > e2.frequency
    \/ (e1.frequency = e2.frequency /\ StrLess(e1.predicate, e2.predicate))

\* a query that is not scoped by kind
EntriesOfKind_any_kind(reg, kind) == DOMAIN reg

\* the ids of the entries of one kind
EntriesOfKind(reg, kind) == {i \in DOMAIN reg : reg[i].kind = kind}

\* next(entry for entry in existing_entries if cond): the first in query order
FirstEntry(reg, ids) == CHOOSE i \in ids : \A j \in ids : j = i \/ EntryBefore(reg[i], reg[j])

\* a _touch_entry that forgets the increment
touch_entry_keeps_frequency(entry) == entry

\* _touch_entry
touch_entry(entry) == [entry EXCEPT !.frequency = @ + 1]

NormalizedAliases(entry) == {normalize_predicate_label(a) : a \in Range(entry.aliases)}

\* an _append_alias that stores nothing
append_alias_stores_nothing(entry, alias) == entry

\* _append_alias
append_alias(entry, alias) ==
    IF alias = entry.predicate THEN entry
    ELSE [entry EXCEPT !.aliases = SortedStrs((NormalizedAliases(entry) \ {""}) \cup {alias})]

MaxRat(scores) == CHOOSE m \in scores : \A o \in scores : RatGe(m, o)

\* max of the similarities to the predicate and to every alias
entry_score(normalized, entry) ==
    MaxRat({label_similarity(normalized, t) : t \in {entry.predicate} \cup Range(entry.aliases)})

Decision(entry, id, kind, reason, created) ==
    [canonical_predicate |-> entry.predicate, kind |-> kind, reason |-> reason,
     created_new |-> created, matched_existing |-> ~created, registry_entry_id |-> id]

\* an existing entry i matched: touch it, append the alias unless the match is exact
RegisterMatched(reg, i, kind, normalized, reason) ==
    [reg |-> [reg EXCEPT ![i] = IF reason = "exact_predicate_match" THEN touch_entry(@)
                                 ELSE append_alias(touch_entry(@), normalized)],
     decision |-> Decision(reg[i], i, kind, reason, FALSE)]

RegisterNew(reg, entry, kind) ==
    [reg |-> Append(reg, entry),
     decision |-> Decision(entry, Len(reg) + 1, kind, "new_registry_entry", TRUE)]

\* of the entries scoring at least the threshold: the highest score, and of
\* equal scores the first in query order
BestSimilar(reg, score, similar) ==
    FirstEntry(reg, {i \in similar : \A j \in similar : RatGe(score[i], score[j])})

RegisterBySimilarity(reg, normalized, kind, score, similar) ==
    IF similar # {}
    THEN RegisterMatched(reg, BestSimilar(reg, score, similar), kind, normalized,
                         "similarity_threshold_match")
    ELSE RegisterNew(reg, [kind |-> kind, predicate |-> normalized, aliases |-> <<>>,
                           frequency |-> 1], kind)

SimilarEntries(existing, score) ==
    {i \in existing : RatGe(score[i], REGISTRY_SIMILARITY_THRESHOLD)}

RegisterScored(reg, normalized, kind, existing, score) ==
    RegisterBySimilarity(reg, normalized, kind, score, SimilarEntries(existing, score))

RegisterAmong(reg, normalized, kind, existing, exact, byAlias) ==
    IF exact # {} THEN RegisterMatched(reg, FirstEntry(reg, exact), kind, normalized,
                                       "exact_predicate_match")
    ELSE IF byAlias # {} THEN RegisterMatched(reg, FirstEntry(reg, byAlias), kind, normalized,
                                              "alias_match")
    ELSE RegisterScored(reg, normalized, kind, existing,
                        [i \in existing |-> entry_score(normalized, reg[i])])

RegisterIn(reg, normalized, kind, existing) ==
    RegisterAmong(reg, normalized, kind, existing,
                  {i \in existing : reg[i].predicate = normalized},
                  {i \in existing : normalized \in NormalizedAliases(reg[i])})

DefaultLabel(raw, kind) ==
    IF raw # "" THEN raw
    ELSE IF kind = "fact_predicate" THEN "unknown_predicate" ELSE "unknown_relation"

\* PredicateRegistry.register: the registry after the call and the decision
register(reg, value, kind) ==
    RegisterIn(reg, DefaultLabel(normalize_predicate_label(value), kind), kind,
               EntriesOfKind(reg, kind))

(***************************************************************************)
(* Embeddings (app/services/embeddings.py)                                 *)
(* A vector is a pair of integers; what the embedding client answers for a *)
(* text is an input of the model.                                          *)
(***************************************************************************)
EmbeddingVectors == {<<25, 0>>, <<0, 25>>}

ISqrt(n) == CHOOSE k \in 0..n : k * k = n

\* _vector_norm
vector_norm(v) == ISqrt(v[1] * v[1] + v[2] * v[2])

\* max(0.0, min(1.0, (cosine + 1.0) / 2.0)) for cosine = dot / norms
HalfShifted(dot, norms) ==
    IF dot + norms <= 0 THEN Zero
    ELSE IF dot + norms >= 2 * norms THEN One
    ELSE Rat(dot + norms, 2 * norms)

CosineOfNorms(left, right, left_norm, right_norm) ==
    IF left_norm = 0 \/ right_norm = 0 THEN Zero
    ELSE HalfShifted(left[1] * right[1] + left[2] * right[2], left_norm * right_norm)

\* cosine_similarity
cosine_similarity(left, right) ==
    IF left = NoneVal \/ right = NoneVal THEN Zero
    ELSE CosineOfNorms(left, right, vector_norm(left), vector_norm(right))

(***************************************************************************)
(* Schema registries and stabilization                                     *)
(* (app/services/extraction.py, app/services/schema_stabilization.py)      *)
(***************************************************************************)
PROPOSAL_THRESHOLD == Rat(85, 100)
AUTO_ACCEPT_THRESHOLD == Rat(95, 100)

\* the three label registries, in the order run_schema_stabilization visits them
SchemaTables == <<"schema_fields", "schema_relations", "schema_nodes">>

ProposalType(table) ==
    IF table = "schema_fields" THEN "merge_fields"
    ELSE IF table = "schema_relations" THEN "merge_relations"
    ELSE "merge_nodes"

\* hasattr(model_cls, "canonical_of_id"): SchemaNode has no such column
HasCanonicalColumn(table) == table # "schema_nodes"

\* getattr(row, "canonical_of_id", None): the column, or for a SchemaNode the
\* attribute an earlier assignment left on the loaded object
canonical_of_id(row, table) ==
    IF HasCanonicalColumn(table) THEN row.canonical_of_id ELSE row.transient

\* merged.canonical_of_id = canonical.id
set_canonical_of_id(row, table, id) ==
    IF HasCanonicalColumn(table) THEN [row EXCEPT !.canonical_of_id = id]
    ELSE [row EXCEPT !.transient = id]

\* _is_canonicalized
is_canonicalized(row, table) == canonical_of_id(row, table) # NoId

\* _pair_key
pair_key(left_id, right_id) ==
    IF left_id < right_id THEN <<left_id, right_id>> ELSE <<right_id, left_id>>

\* _existing_pair_keys
existing_pair_keys(proposals, proposal_type) ==
    {pair_key(proposals[k].canonical_id, proposals[k].merged_id) :
        k \in {j \in DOMAIN proposals : proposals[j].proposal_type = proposal_type}}

\* len([token for token in label.split("_") if token])
token_count(label) ==
    Cardinality({i \in 1..Len(label) :
        /\ SubSeq(label, i, i) # "_"
        /\ (i = 1 \/ SubSeq(label, i - 1, i - 1) = "_")})

\* a _label_specificity that ranks the shorter label first
label_specificity_shorter_first(label) == <<token_count(label), Len(label)>>

\* _label_specificity
label_specificity(label) == <<0 - token_count(label), 0 - Len(label)>>

\* (_label_specificity(row.label), row.label.lower(), row.id)
Rank(row, id) ==
    [specificity |-> label_specificity(row.label), lower |-> StrLower(row.label), id |-> id]

\* left_rank <= right_rank on the tuples
RankLe(l, r) ==
    IF l.specificity[1] # r.specificity[1] THEN l.specificity[1] < r.specificity[1]
    ELSE IF l.specificity[2] # r.specificity[2] THEN l.specificity[2] < r.specificity[2]
    ELSE IF l.lower # r.lower THEN StrLess(l.lower, r.lower)
    ELSE l.id <= r.id

\* _choose_canonical: <<canonical id, merged id>>
choose_canonical(rows, left, right) ==
    IF rows[left].observations # rows[right].observations
    THEN (IF rows[left].observations > rows[right].observations
          THEN <<left, right>> ELSE <<right, left>>)
    ELSE IF RankLe(Rank(rows[left], left), Rank(rows[right], right))
         THEN <<left, right>> ELSE <<right, left>>

BetterScore(string_score, embedding_score) ==
    IF RatGt(embedding_score, string_score)
    THEN [score |-> embedding_score, method |-> "embedding_cosine_v1"]
    ELSE [score |-> string_score, method |-> "string_similarity_v1"]

\* _schema_similarity
schema_similarity(left, right) ==
    BetterScore(label_similarity(left.label, right.label),
                cosine_similarity(left.embedding, right.embedding))

ProposalStatus(similarity) ==
    IF RatGe(similarity.score, AUTO_ACCEPT_THRESHOLD) THEN "auto_accepted" ELSE "proposed"

SchemaProposal(table, rows, chosen, similarity, status) ==
    [proposal_type |-> ProposalType(table),
     canonical_id |-> chosen[1], canonical_label |-> rows[chosen[1]].label,
     merged_id |-> chosen[2], merged_label |-> rows[chosen[2]].label,
     table_name |-> table,
     confidence |-> similarity.score, method |-> similarity.method, status |-> status]

\* lines 81-107 of _stabilize_model: the proposal, and the merge when auto-accepted
Propose(acc, table, chosen, similarity, status) ==
    [rows |-> IF status = "auto_accepted"
              THEN [acc.rows EXCEPT ![chosen[2]] = set_canonical_of_id(@, table, SomeId(chosen[1]))]
              ELSE acc.rows,
     proposals |-> Append(acc.proposals, SchemaProposal(table, acc.rows, chosen, similarity, status)),
     pairs |-> acc.pairs \cup {pair_key(chosen[1], chosen[2])},
     created |-> acc.created + 1,
     accepted |-> acc.accepted + (IF status = "auto_accepted" THEN 1 ELSE 0)]

ConsiderPair(acc, table, left, right, similarity) ==
    IF ~RatGe(similarity.score, PROPOSAL_THRESHOLD) THEN acc
    ELSE Propose(acc, table, choose_canonical(acc.rows, left, right), similarity,
                 ProposalStatus(similarity))

\* the body of the two loops of _stabilize_model for one pair
process_pair(acc, table, left, right) ==
    IF left = right THEN acc
    ELSE IF is_canonicalized(acc.rows[left], table) \/ is_canonicalized(acc.rows[right], table)
         THEN acc
    ELSE IF pair_key(left, right) \in acc.pairs THEN acc
    ELSE ConsiderPair(acc, table, left, right, schema_similarity(acc.rows[left], acc.rows[right]))

RECURSIVE StabilizePairs(_, _, _)
StabilizePairs(acc, table, pairs) ==
    IF pairs = <<>> THEN acc
    ELSE StabilizePairs(process_pair(acc, table, Head(pairs)[1], Head(pairs)[2]), table, Tail(pairs))

RECURSIVE SortedIds(_)
\* order_by(model_cls.id.asc())
SortedIds(ids) ==
    IF ids = {} THEN <<>>
    ELSE <<CHOOSE i \in ids : \A j \in ids : i <= j>>
         \o SortedIds(ids \ {CHOOSE i \in ids : \A j \in ids : i <= j})

\* the rows query of _stabilize_model
QueryRows(rows, table) ==
    SortedIds({i \in DOMAIN rows : HasCanonicalColumn(table) => rows[i].canonical_of_id = NoId})

RECURSIVE RowPairs(_)
\* for idx, left in enumerate(rows): for right in rows[idx + 1:]
RowPairs(ids) ==
    IF Len(ids) < 2 THEN <<>>
    ELSE [k \in 1..(Len(ids) - 1) |-> <<ids[1], ids[k + 1]>>] \o RowPairs(Tail(ids))

StabilizedTable(db, table, acc) ==
    [schema |-> [db.schema EXCEPT ![table] = acc.rows], proposals |-> acc.proposals,
     created |-> acc.created, accepted |-> acc.accepted]

\* _stabilize_model
stabilize_model(db, table) ==
    StabilizedTable(db, table,
        StabilizePairs([rows |-> db.schema[table], proposals |-> db.proposals,
                        pairs |-> existing_pair_keys(db.proposals, ProposalType(table)),
                        created |-> db.created, accepted |-> db.accepted],
                       table, RowPairs(QueryRows(db.schema[table], table))))

RECURSIVE StabilizeTables(_, _)
StabilizeTables(db, tables) ==
    IF tables = <<>> THEN db
    ELSE StabilizeTables(stabilize_model(db, Head(tables)), Tail(tables))

\* run_schema_stabilization
run_schema_stabilization(schema, proposals) ==
    StabilizeTables([schema |-> schema, proposals |-> proposals, created |-> 0, accepted |-> 0],
                    SchemaTables)

\* a new session loads the rows anew: what was assigned to a SchemaNode object
\* and is no column is gone
FreshSession(schema) ==
    [schema EXCEPT !["schema_nodes"] = [i \in DOMAIN @ |-> [@[i] EXCEPT !.transient = NoId]]]

SchemaRow(label, vector) ==
    [label |-> label, observations |-> 1, embedding |-> vector,
     canonical_of_id |-> NoId, transient |-> NoId]

UpsertAt(rows, existing, label, vector) ==
    IF existing = {} THEN Append(rows, SchemaRow(label, vector))
    ELSE [i \in DOMAIN rows |->
            IF i \in existing
            THEN [rows[i] EXCEPT !.observations = @ + 1, !.embedding = vector]
            ELSE rows[i]]

\* _upsert_schema_registry for one observed label
upsert_schema_registry(rows, label, vector) ==
    UpsertAt(rows, {i \in DOMAIN rows : rows[i].label = label}, label, vector)
(***************************************************************************)
(* Entity resolver (app/entity_resolution/resolver.py)                     *)
(***************************************************************************)
RESOLVER_SIMILARITY_THRESHOLD == Rat(94, 100)
EMBEDDING_SIMILARITY_THRESHOLD == Rat(90, 100)
BORDERLINE_EMBEDDING_MIN == Rat(82, 100)

\* the similarity of two hashed texts whose token lists differ: SHA-256 is not
\* computed, each resolve call and each extraction run sees one of these values
HashSimilarities == {Rat(1, 2), Rat(86, 100), Rat(93, 100)}

\* the embedder of a run: what hashed texts compare to, the vector its labels
\* get, and which client answers embed_texts_with_fallback for the entity and
\* fact rows and for the schema labels: the provider, or after an
\* EmbeddingError (or without an API key) the hash fallback
Embedders ==
    {[hashed |-> Rat(1, 2), vector |-> <<25, 0>>, rows |-> "provider", labels |-> "provider"],
     [hashed |-> Rat(86, 100), vector |-> <<0, 25>>, rows |-> "hash", labels |-> "hash"],
     [hashed |-> Rat(93, 100), vector |-> <<25, 0>>, rows |-> "provider", labels |-> "hash"]}

\* _TOKEN_RE.findall(clean_text) in hash_embed_text, as the bag of the tokens
HashTokenList(tokens) ==
    [t \in Range(tokens) |-> Cardinality({i \in DOMAIN tokens : tokens[i] = t})]

HashTokens(text) ==
    HashTokenList(Split(Join([i \in 1..Len(text) |->
        IF IsLowerAlnum(LowerChar(SubSeq(text, i, i))) THEN LowerChar(SubSeq(text, i, i)) ELSE " "])))

\* cosine_similarity(hash_embed_text(left), hash_embed_text(right)) from the tokens:
\* no token gives the zero vector, the same tokens give the same vector
HashedCosine(left, right, hashed) ==
    IF DOMAIN left = {} \/ DOMAIN right = {} THEN Zero
    ELSE IF left = right THEN One
    ELSE hashed

\* llm_entity_disambiguation under the default settings: the oracle is disabled
llm_entity_disambiguation == FALSE

\* _clean_type_label, _clean_optional_text
clean_type_label(value) ==
    IF value = NoneVal THEN NoneVal
    ELSE IF Strip(value) = "" THEN NoneVal
    ELSE Strip(value)

TypeKeyOf(cleaned) == IF cleaned = NoneVal THEN "__none__" ELSE Lower(cleaned)

\* _type_key
type_key(value) == TypeKeyOf(clean_type_label(value))

\* _iter_entity_aliases
iter_entity_aliases(entity) == <<entity.name>> \o entity.aliases

\* sub in s
Contains(s, sub) ==
    \E i \in 1..(Len(s) - Len(sub) + 1) : SubSeq(s, i, i + Len(sub) - 1) = sub

\* str.isupper(): a cased character, and no lowercase one
IsUpperStr(s) ==
    /\ \E i \in 1..Len(s) : IsUpper(SubSeq(s, i, i))
    /\ \A i \in 1..Len(s) : SubSeq(s, i, i) \notin LowerChars

LegalSuffixes == {" inc", " corp", " corporation", " ltd", " llc", " plc", " co."}

ScoreOfStripped(stripped, tokens) ==
    <<IF \E suffix \in LegalSuffixes : Contains(Lower(stripped), suffix) THEN 1 ELSE 0,
      IF IsUpperStr(stripped) /\ tokens = 1 /\ Len(stripped) <= 6 THEN 0 ELSE 1,
      tokens,
      Len(stripped)>>

\* the score of a name (every character of Alphabet is ASCII)
NameScore(name) == ScoreOfStripped(Strip(name), Len(Split(name)))

\* the scores of the names of entities, evaluated once
NameScores == Memo([name \in EntityNames |-> NameScore(name)])

\* _canonical_name_score
canonical_name_score(name) ==
    IF name \in DOMAIN NameScores THEN NameScores[name] ELSE NameScore(name)

\* > on the score tuples
ScoreGt(a, b) ==
    \E k \in 1..4 : a[k] > b[k] /\ \A j \in 1..(k - 1) : a[j] = b[j]

\* the member _recompute_canonical ends with: the best score, then the lowest index
BestMember(members) ==
    CHOOSE m \in members : \A o \in members :
        \/ o = m
        \/ ScoreGt(canonical_name_score(m.entity.name), canonical_name_score(o.entity.name))
        \/ /\ canonical_name_score(m.entity.name) = canonical_name_score(o.entity.name)
           /\ m.extracted_index < o.extracted_index

SetCanonical(cluster, member) ==
    [cluster EXCEPT !.canonical_member_index = SomeId(member.extracted_index),
                    !.canonical_name = Strip(member.entity.name)]

RecomputeAmong(cluster, named) ==
    IF named = {} THEN cluster ELSE SetCanonical(cluster, BestMember(named))

\* _EntityCluster._recompute_canonical
recompute_canonical(cluster) ==
    RecomputeAmong(cluster, {m \in Range(cluster.members) : Strip(m.entity.name) # ""})

\* _EntityCluster(type_label=..., type_key=...)
EntityCluster(type_label, key) ==
    [type_label |-> type_label, type_key |-> key, members |-> <<>>, aliases |-> {},
     normalized_aliases |-> {}, canonical_name |-> "", canonical_member_index |-> NoId]

\* _EntityCluster.add_member
add_member(cluster, extracted_index, entity, merge_reason, merge_confidence) ==
    recompute_canonical(
        [cluster EXCEPT
            !.members = Append(@, [extracted_index |-> extracted_index, entity |-> entity,
                                   merge_reason |-> merge_reason,
                                   merge_confidence |-> merge_confidence]),
            !.aliases = @ \cup Range(iter_entity_aliases(entity)),
            !.normalized_aliases =
                @ \cup ({NormalizedNames[a] : a \in Range(iter_entity_aliases(entity))} \ {""})])

NoMatch == <<>>

\* _best_embedding_similarity
best_embedding_similarity(left_aliases, right_aliases, hashed) ==
    MaxRat({Zero} \cup
           {HashedCosine(HashTokens(l), HashTokens(r), hashed) :
               l \in {a \in left_aliases : Strip(a) # ""},
               r \in {a \in right_aliases : Strip(a) # ""}})

\* lines 149-157 of _EntityCluster.match with the answer of the oracle
MatchByEmbeddingWith(embedding_score, accepts) ==
    IF RatGe(embedding_score, EMBEDDING_SIMILARITY_THRESHOLD)
    THEN <<"embedding_similarity", embedding_score>>
    ELSE IF RatGe(embedding_score, BORDERLINE_EMBEDDING_MIN) /\ accepts
    THEN <<"llm_disambiguation", embedding_score>>
    ELSE NoMatch

MatchByEmbedding(embedding_score) ==
    MatchByEmbeddingWith(embedding_score, llm_entity_disambiguation)

MatchBySimilarity(cluster, names, best_similarity, hashed) ==
    IF RatGe(best_similarity, RESOLVER_SIMILARITY_THRESHOLD)
    THEN <<"embedding_similarity_threshold", best_similarity>>
    ELSE MatchByEmbedding(best_embedding_similarity(names, cluster.aliases, hashed))

MatchNormalized(cluster, entity, names, candidate_normalized, hashed) ==
    IF candidate_normalized = {} THEN NoMatch
    ELSE IF candidate_normalized \cap cluster.normalized_aliases # {}
    THEN <<IF NormalizedNames[entity.name] \in cluster.normalized_aliases
           THEN "exact_name_match" ELSE "alias_match", One>>
    ELSE MatchBySimilarity(cluster, names,
            MaxRat({Zero} \cup {label_similarity(c, e) : c \in names, e \in cluster.aliases}),
            hashed)

\* _EntityCluster.match: <<reason, confidence>>, or NoMatch
match(cluster, entity, hashed) ==
    MatchNormalized(cluster, entity, Range(iter_entity_aliases(entity)),
                    {NormalizedNames[c] : c \in Range(iter_entity_aliases(entity))} \ {""},
                    hashed)

NoCluster == [index |-> NoId, reason |-> NoneVal, confidence |-> Zero]

\* a match replaces the best also with an equal confidence
BetterMatch_last_wins(best, cluster_index, found) ==
    IF found = NoMatch THEN best
    ELSE IF RatGe(found[2], best.confidence)
    THEN [index |-> SomeId(cluster_index), reason |-> found[1], confidence |-> found[2]]
    ELSE best

\* lines 228-234 of resolve: a match replaces the best only with a higher confidence
BetterMatch(best, cluster_index, found) ==
    IF found = NoMatch THEN best
    ELSE IF RatGt(found[2], best.confidence)
    THEN [index |-> SomeId(cluster_index), reason |-> found[1], confidence |-> found[2]]
    ELSE best

RECURSIVE ScanClusters_any_type(_, _, _, _, _, _)
\* a loop over the clusters that matches against clusters of every type
ScanClusters_any_type(clusters, k, entity, key, best, hashed) ==
    IF k > Len(clusters) THEN best
    ELSE ScanClusters_any_type(clusters, k + 1, entity, key,
                               BetterMatch(best, k - 1, match(clusters[k], entity, hashed)),
                               hashed)

RECURSIVE ScanClusters(_, _, _, _, _, _)
\* the loop over the clusters in resolve; clusters[k] is the cluster of index k - 1
ScanClusters(clusters, k, entity, key, best, hashed) ==
    IF k > Len(clusters) THEN best
    ELSE ScanClusters(clusters, k + 1, entity, key,
                      IF clusters[k].type_key # key THEN best
                      ELSE BetterMatch(best, k - 1, match(clusters[k], entity, hashed)),
                      hashed)

\* lines 236-254 of resolve: a new cluster, or one more member of the matched one
PlaceEntity(clusters, extracted_index, entity, key, best) ==
    IF best.index = NoId
    THEN Append(clusters, add_member(EntityCluster(clean_type_label(entity.type_label), key),
                                     extracted_index, entity, NoneVal, One))
    ELSE [clusters EXCEPT ![best.index[1] + 1] =
            add_member(@, extracted_index, entity, best.reason, best.confidence)]

ResolveEntity(clusters, extracted_index, entity, key, hashed) ==
    PlaceEntity(clusters, extracted_index, entity, key,
                ScanClusters(clusters, 1, entity, key, NoCluster, hashed))

RECURSIVE ResolveFrom(_, _, _, _)
ResolveFrom(entities, i, clusters, hashed) ==
    IF i > Len(entities) THEN clusters
    ELSE ResolveFrom(entities, i + 1,
                     ResolveEntity(clusters, i - 1, entities[i], type_key(entities[i].type_label),
                                   hashed),
                     hashed)

AssignmentOf(cluster, cluster_index, member, is_canonical) ==
    [extracted_index |-> member.extracted_index,
     canonical_cluster_index |-> cluster_index,
     canonical_name |-> cluster.canonical_name,
     type_label |-> cluster.type_label,
     merged |-> ~is_canonical,
     reason_for_merge |-> IF is_canonical THEN NoneVal
                          ELSE IF member.merge_reason \in {NoneVal, ""}
                          THEN "cluster_canonicalization"
                          ELSE member.merge_reason,
     confidence |-> IF is_canonical THEN One ELSE member.merge_confidence,
     known_aliases |-> SortedStrs(cluster.aliases)]

\* a build_assignment that takes the member that opened the cluster for canonical
build_assignment_first_member(cluster, cluster_index, member) ==
    AssignmentOf(cluster, cluster_index, member, member.merge_reason = NoneVal)

\* _EntityCluster.build_assignment
build_assignment(cluster, cluster_index, member) ==
    AssignmentOf(cluster, cluster_index, member,
                 cluster.canonical_member_index = SomeId(member.extracted_index))

RECURSIVE ClusterAssignments(_, _)
\* lines 256-262 of resolve: the assignments cluster by cluster, member by member
ClusterAssignments(clusters, k) ==
    IF k > Len(clusters) THEN <<>>
    ELSE [j \in DOMAIN clusters[k].members |->
            build_assignment(clusters[k], k - 1, clusters[k].members[j])]
         \o ClusterAssignments(clusters, k + 1)

RECURSIVE InsertByIndex(_, _)
InsertByIndex(sorted, a) ==
    IF sorted = <<>> THEN <<a>>
    ELSE IF a.extracted_index < Head(sorted).extracted_index THEN <<a>> \o sorted
    ELSE <<Head(sorted)>> \o InsertByIndex(Tail(sorted), a)

RECURSIVE SortByIndex(_, _)
\* assignments.sort(key=lambda assignment: assignment.extracted_index)
SortByIndex(assignments, sorted) ==
    IF assignments = <<>> THEN sorted
    ELSE SortByIndex(Tail(assignments), InsertByIndex(sorted, Head(assignments)))

ResolutionPlan(clusters) ==
    [assignments |-> SortByIndex(ClusterAssignments(clusters, 1), <<>>),
     canonical_cluster_indexes |-> [k \in DOMAIN clusters |-> k - 1]]

\* EntityResolver.resolve
resolve(entities, hashed) == ResolutionPlan(ResolveFrom(entities, 1, <<>>, hashed))


\* the normalized known aliases of an assignment, without the empty one
AssignmentAliases(assignment) ==
    {NormalizedNames[alias] : alias \in Range(assignment.known_aliases)} \ {""}

ReferenceScore(candidate_normalized, assignment) ==
    MaxRat({label_similarity(candidate_normalized, alias) : alias \in AssignmentAliases(assignment)})

\* the first assignment with the highest score (a later one replaces it only with a higher score)
BestReference(assignments, candidate_normalized, similar) ==
    CHOOSE i \in similar : \A j \in similar :
        \/ j = i
        \/ RatGt(ReferenceScore(candidate_normalized, assignments[i]),
                 ReferenceScore(candidate_normalized, assignments[j]))
        \/ /\ RatEq(ReferenceScore(candidate_normalized, assignments[i]),
                     ReferenceScore(candidate_normalized, assignments[j]))
           /\ i < j

\* what the loop of resolve_reference leaves: the first exact match ends it, the
\* last alias match stays in best_alias, the first best score in best_similarity
ReferencePick(assignments, candidate_normalized, exact, alias, similar) ==
    IF exact # {}
    THEN SomeId(assignments[CHOOSE i \in exact : \A j \in exact : i <= j].canonical_cluster_index)
    ELSE IF alias # {}
    THEN SomeId(assignments[CHOOSE i \in alias : \A j \in alias : j <= i].canonical_cluster_index)
    ELSE IF similar # {}
    THEN SomeId(assignments[BestReference(assignments, candidate_normalized, similar)]
                    .canonical_cluster_index)
    ELSE NoId

ReferenceAmong(assignments, candidate_normalized, eligible) ==
    ReferencePick(assignments, candidate_normalized,
        {i \in eligible : candidate_normalized = NormalizedNames[assignments[i].canonical_name]},
        {i \in eligible : candidate_normalized \in AssignmentAliases(assignments[i])},
        {i \in eligible :
            /\ candidate_normalized \notin AssignmentAliases(assignments[i])
            /\ RatGe(ReferenceScore(candidate_normalized, assignments[i]),
                     RESOLVER_SIMILARITY_THRESHOLD)})

ReferenceOf(plan, candidate_normalized, requested_type_key) ==
    IF candidate_normalized = "" THEN NoId
    ELSE ReferenceAmong(plan.assignments, candidate_normalized,
            {i \in DOMAIN plan.assignments :
                /\ requested_type_key # NoneVal =>
                       type_key(plan.assignments[i].type_label) = requested_type_key
                /\ AssignmentAliases(plan.assignments[i]) # {}})

\* EntityResolutionPlan.resolve_reference: the cluster index, or None
resolve_reference(plan, name, type_label) ==
    ReferenceOf(plan, NormalizedNames[name],
                IF type_label = NoneVal THEN NoneVal ELSE type_key(type_label))

(***************************************************************************)
(* Extraction run and global entity matcher (app/services/extraction.py)   *)
(***************************************************************************)
\* a stricter string-similarity threshold of the global matcher
GLOBAL_STRING_SIMILARITY_97 == Rat(97, 100)

GLOBAL_STRING_SIMILARITY == Rat(96, 100)
GLOBAL_EMBEDDING_ACCEPT == Rat(92, 100)
GLOBAL_EMBEDDING_BORDERLINE == Rat(84, 100)
GLOBAL_ALIAS_CONFIDENCE == Rat(99, 100)
GLOBAL_LLM_CONFIDENCE == Rat(85, 100)

\* Settings.global_resolution_max_candidates
global_resolution_max_candidates == 500

\* the floor of the candidate-pool cap
MinGlobalCandidates == 50

\* " ".join(value.lower().split())
FoldCase(value) == JoinWith(" ", Split(StrLower(value)))

\* the alias keys of the names of entities, evaluated once
FoldedNames == Memo([name \in EntityNames |-> FoldCase(name)])

\* _alias_key
alias_key(value) == IF value \in DOMAIN FoldedNames THEN FoldedNames[value] ELSE FoldCase(value)

\* " ".join(value.strip().split())
CollapseText(value) == JoinWith(" ", Split(Strip(value)))

\* the cleaned names of entities, evaluated once
CleanedNames == Memo([name \in EntityNames |-> CollapseText(name)])

\* the cleaning of a value in _merge_aliases
CleanText(value) ==
    IF value \in DOMAIN CleanedNames THEN CleanedNames[value] ELSE CollapseText(value)

RECURSIVE MergeFrom(_, _, _)
MergeValue(values, seen, merged, clean, key) ==
    IF clean = "" \/ key = "" \/ key \in seen THEN MergeFrom(Tail(values), seen, merged)
    ELSE MergeFrom(Tail(values), seen \cup {key}, Append(merged, clean))

\* the loop of _merge_aliases over the remaining values
MergeFrom(values, seen, merged) ==
    IF values = <<>> THEN merged
    ELSE MergeValue(values, seen, merged, CleanText(Head(values)),
                    alias_key(CleanText(Head(values))))

\* _merge_aliases
merge_aliases(existing, incoming) == MergeFrom(existing \o incoming, {}, <<>>)

\* _entity_aliases
entity_aliases(entity) ==
    merge_aliases(entity.known_aliases, <<entity.name, entity.canonical_name>> \o entity.aliases)

\* the alias keys of an entity, without the empty one
AliasKeys(entity) == {alias_key(alias) : alias \in Range(entity_aliases(entity))} \ {""}

\* (entity.type_label or entity.type).strip().lower()
EntityType(entity) == Lower(Strip(entity.type_label))

\* _best_alias_similarity
best_alias_similarity(left_aliases, right_aliases) ==
    MaxRat({Zero} \cup
           {label_similarity(NormalizedNames[l], NormalizedNames[r]) :
               l \in {a \in Range(left_aliases) : NormalizedNames[a] # ""},
               r \in {a \in Range(right_aliases) : NormalizedNames[a] # ""}})

\* sorted(tokens)[0]
PrimaryToken(tokens) == CHOOSE t \in tokens : \A u \in tokens : u = t \/ StrLess(t, u)

GateOfTokens(left_tokens, right_tokens) ==
    IF left_tokens = {} \/ right_tokens = {} THEN FALSE
    ELSE IF left_tokens \cap right_tokens # {} THEN TRUE
    ELSE SubSeq(PrimaryToken(left_tokens), 1, 1) = SubSeq(PrimaryToken(right_tokens), 1, 1)

\* _coarse_name_gate
coarse_name_gate(left_name, right_name) ==
    GateOfTokens(TokenSet(NormalizedNames[left_name]), TokenSet(NormalizedNames[right_name]))

EmbeddingText(base, type_label, alias_text) ==
    base \o (IF type_label = "" THEN "" ELSE " :: " \o Strip(type_label))
         \o (IF alias_text = "" THEN "" ELSE " :: aliases: " \o alias_text)

\* _build_entity_embedding_text
build_entity_embedding_text(canonical_name, type_label, aliases) ==
    EmbeddingText(Strip(canonical_name), type_label,
                  JoinWith(", ", SortedStrs({Strip(a) : a \in Range(aliases)} \ {""})))

\* cosine_similarity(_entity_embedding_vector(local), _entity_embedding_vector(candidate)):
\* two hashed texts, unless an embedding is stored for one of the entities
entity_embedding_similarity(local, candidate, hashed) ==
    IF local.embedding # "none" \/ candidate.embedding # "none" THEN hashed
    ELSE HashedCosine(
            HashTokens(build_entity_embedding_text(local.canonical_name, local.type_label,
                                                   local.known_aliases)),
            HashTokens(build_entity_embedding_text(candidate.canonical_name,
                                                   candidate.type_label,
                                                   candidate.known_aliases)),
            hashed)

Rule(name, score) == [rule |-> name, score |-> score]

\* lines 665-672 of _find_best_global_entity_match
RuleByEmbedding(embedding_similarity) ==
    IF RatGe(embedding_similarity, GLOBAL_EMBEDDING_ACCEPT)
    THEN Rule("global_embedding_similarity", embedding_similarity)
    ELSE IF RatGe(embedding_similarity, GLOBAL_EMBEDDING_BORDERLINE)
    THEN Rule("borderline", embedding_similarity)
    ELSE Rule("none", Zero)

\* lines 659-663
RuleBySimilarity(local, candidate, similarity, hashed) ==
    IF RatGe(similarity, GLOBAL_STRING_SIMILARITY) THEN Rule("global_string_similarity", similarity)
    ELSE RuleByEmbedding(entity_embedding_similarity(local, candidate, hashed))

\* the rules of a candidate without the comparison of the types
CandidateRule_any_type(local, candidate, hashed) ==
    IF alias_key(local.canonical_name) = alias_key(candidate.canonical_name)
    THEN Rule("global_exact_canonical_match", One)
    ELSE IF AliasKeys(local) \cap AliasKeys(candidate) # {}
    THEN Rule("global_alias_match", GLOBAL_ALIAS_CONFIDENCE)
    ELSE IF ~coarse_name_gate(local.canonical_name, candidate.canonical_name)
    THEN Rule("none", Zero)
    ELSE RuleBySimilarity(local, candidate,
            best_alias_similarity(entity_aliases(local), entity_aliases(candidate)), hashed)

\* lines 640-657: what one candidate is to the local entity
CandidateRule(local, candidate, hashed) ==
    IF EntityType(local) # "" /\ EntityType(candidate) # ""
                             /\ EntityType(local) # EntityType(candidate)
    THEN Rule("none", Zero)
    ELSE IF alias_key(local.canonical_name) = alias_key(candidate.canonical_name)
    THEN Rule("global_exact_canonical_match", One)
    ELSE IF AliasKeys(local) \cap AliasKeys(candidate) # {}
    THEN Rule("global_alias_match", GLOBAL_ALIAS_CONFIDENCE)
    ELSE IF ~coarse_name_gate(local.canonical_name, candidate.canonical_name)
    THEN Rule("none", Zero)
    ELSE RuleBySimilarity(local, candidate,
            best_alias_similarity(entity_aliases(local), entity_aliases(candidate)), hashed)

NoSurvivor == [survivor |-> NoId, reason |-> NoneVal, confidence |-> Zero]

Survivor(id, reason, confidence) ==
    [survivor |-> SomeId(id), reason |-> reason, confidence |-> confidence]

\* lines 668-674: after the scan, with the answer of the oracle
AfterScanWith(best_match, borderline, accepts) ==
    IF best_match.survivor # NoId THEN best_match
    ELSE IF borderline.survivor # NoId /\ accepts
    THEN [borderline EXCEPT !.reason = "global_llm_disambiguation",
                            !.confidence = RatMax(@, GLOBAL_LLM_CONFIDENCE)]
    ELSE NoSurvivor

AfterScan(best_match, borderline) ==
    AfterScanWith(best_match, borderline, llm_entity_disambiguation)

\* a later candidate replaces the tracked one only with a higher similarity
Tracked(current, id, found) ==
    IF current.survivor = NoId \/ RatGt(found.score, current.confidence)
    THEN Survivor(id, found.rule, found.score)
    ELSE current

RECURSIVE GlobalScan(_, _, _, _, _, _, _)
ScanStep(entities, local, candidates, k, best_match, borderline, hashed, found) ==
    IF found.rule \in {"global_exact_canonical_match", "global_alias_match",
                       "global_string_similarity"}
    THEN Survivor(candidates[k], found.rule, found.score)
    ELSE GlobalScan(entities, local, candidates, k + 1,
            IF found.rule = "global_embedding_similarity"
            THEN Tracked(best_match, candidates[k], found) ELSE best_match,
            IF found.rule = "borderline"
            THEN Tracked(borderline, candidates[k], found) ELSE borderline,
            hashed)

\* the loop of _find_best_global_entity_match from the k-th candidate on
GlobalScan(entities, local, candidates, k, best_match, borderline, hashed) ==
    IF k > Len(candidates) THEN AfterScan(best_match, borderline)
    ELSE ScanStep(entities, local, candidates, k, best_match, borderline, hashed,
                  CandidateRule(local, entities[candidates[k]], hashed))

\* _find_best_global_entity_match
find_best_global_entity_match(entities, local, candidates, hashed) ==
    GlobalScan(entities, local, candidates, 1, NoSurvivor, NoSurvivor, hashed)

\* max(50, int(settings.global_resolution_max_candidates))
max_candidates ==
    IF MinGlobalCandidates > global_resolution_max_candidates
    THEN MinGlobalCandidates ELSE global_resolution_max_candidates

Reverse(s) == [i \in 1..Len(s) |-> s[Len(s) + 1 - i]]

FirstOf(s, n) == SubSeq(s, 1, IF Len(s) < n THEN Len(s) ELSE n)

\* the candidate query of _apply_global_entity_matching
global_candidates(entities, conversation_id, local_entity_ids) ==
    FirstOf(Reverse(SortedIds({i \in DOMAIN entities :
                /\ entities[i].merged_into_id = NoId
                /\ entities[i].conversation_id # conversation_id
                /\ i \notin local_entity_ids})),
            max_candidates)

GlobalAudit(conversation_id, survivor, merged, reason, confidence) ==
    [conversation_id |-> conversation_id, survivor_entity_id |-> survivor,
     merged_entity_ids |-> <<merged>>, reason_for_merge |-> reason,
     confidence |-> confidence, merge_scope |-> "global"]

\* lines 601-625: the local canonical entity is merged into the survivor
AcceptGlobalMatch(acc, p, local, found, conversation_id) ==
    [entities |->
        [acc.entities EXCEPT
            ![local] = [@ EXCEPT !.merged_into_id = found.survivor,
                                 !.resolution_reason = found.reason,
                                 !.resolution_confidence = found.confidence],
            ![found.survivor[1]] =
                [@ EXCEPT !.known_aliases =
                    merge_aliases(@, <<acc.entities[found.survivor[1]].name,
                                       acc.entities[local].name>>
                                     \o acc.entities[local].known_aliases)]],
     by_cluster |-> [acc.by_cluster EXCEPT ![p].entity = found.survivor[1]],
     candidates |-> Append(acc.candidates, local),
     audits |-> Append(acc.audits,
                       GlobalAudit(conversation_id, found.survivor[1], local,
                                   found.reason, found.confidence)),
     scans |-> acc.scans]

Scanned(acc, local) ==
    [acc EXCEPT !.scans = Append(@, [local |-> local, candidates |-> acc.candidates,
                                     entities |-> acc.entities])]

MatchLocal(acc, p, local, found, conversation_id) ==
    IF found.survivor = NoId THEN acc
    ELSE IF found.survivor = SomeId(local) THEN acc
    ELSE AcceptGlobalMatch(acc, p, local, found, conversation_id)

RECURSIVE MatchLocals(_, _, _, _, _)
\* the loop of _apply_global_entity_matching over list(canonical_entity_by_cluster.items())
MatchLocals(acc, items, p, conversation_id, hashed) ==
    IF p > Len(items) THEN acc
    ELSE MatchLocals(
            MatchLocal(Scanned(acc, items[p].entity), p, items[p].entity,
                       find_best_global_entity_match(acc.entities, acc.entities[items[p].entity],
                                                     acc.candidates, hashed),
                       conversation_id),
            items, p + 1, conversation_id, hashed)

\* _apply_global_entity_matching
apply_global_entity_matching(entities, conversation_id, by_cluster, local_entity_ids, hashed) ==
    MatchLocals([entities |-> entities, by_cluster |-> by_cluster,
                 candidates |-> global_candidates(entities, conversation_id, local_entity_ids),
                 audits |-> <<>>, scans |-> <<>>],
                by_cluster, 1, conversation_id, hashed)

\* the rows of the conversation
RowsOf(rows, conversation_id) ==
    SelectSeq(rows, LAMBDA row : row.conversation_id = conversation_id)

\* the rows of the other conversations: delete(...).where(conversation_id == conversation_id)
DeleteOf(rows, conversation_id) ==
    SelectSeq(rows, LAMBDA row : row.conversation_id # conversation_id)

\* a delete that leaves the merge audits of the conversation in place
DeletePrior_keeps_audits(db, conversation_id) ==
    [db EXCEPT !.relations = DeleteOf(@, conversation_id),
               !.facts = DeleteOf(@, conversation_id),
               !.links = DeleteOf(@, conversation_id),
               !.events = DeleteOf(@, conversation_id)]

\* lines 165-170 of _replace_extracted_records
DeletePrior(db, conversation_id) ==
    [db EXCEPT !.relations = DeleteOf(@, conversation_id),
               !.facts = DeleteOf(@, conversation_id),
               !.links = DeleteOf(@, conversation_id),
               !.events = DeleteOf(@, conversation_id),
               !.audits = DeleteOf(@, conversation_id)]

\* _normalize_extraction_payload
normalize_extraction_payload(result) ==
    [result EXCEPT !.entities =
        [i \in DOMAIN @ |-> [@[i] EXCEPT !.type_label = clean_type_label(@)]]]

\* assignments_by_index[extracted_index]
AssignmentAt(plan, extracted_index) ==
    plan.assignments[CHOOSE i \in DOMAIN plan.assignments :
                        plan.assignments[i].extracted_index = extracted_index]

\* extracted_entity.type_label or "Unspecified"
TypeOrUnspecified(type_label) ==
    IF type_label \in {NoneVal, ""} THEN "Unspecified" ELSE type_label

\* Entity(...) at lines 186-200
EntityRow(conversation_id, extracted, assignment) ==
    [conversation_id |-> conversation_id,
     name |-> extracted.name,
     canonical_name |-> assignment.canonical_name,
     type_label |-> TypeOrUnspecified(extracted.type_label),
     aliases |-> SortedStrs(Range(extracted.aliases)),
     known_aliases |-> assignment.known_aliases,
     resolution_confidence |-> assignment.confidence,
     resolution_reason |-> assignment.reason_for_merge,
     merged_into_id |-> NoId,
     embedding |-> "none"]

RECURSIVE Observed(_, _)
ObserveLabel(labels, bucket, clean_label) ==
    Observed(Tail(labels),
             IF clean_label \in Range(bucket) \cup {""} THEN bucket
             ELSE Append(bucket, clean_label))

\* _record_schema_observation over the labels in turn: the keys of the bucket
Observed(labels, bucket) ==
    IF labels = <<>> THEN bucket
    ELSE ObserveLabel(labels, bucket, normalize_schema_label(Head(labels)))

\* the types observed at lines 212-217: every type label that is given
TypeLabels(entities) ==
    [k \in DOMAIN SelectSeq(entities, LAMBDA e : e.type_label \notin {NoneVal, ""}) |->
        SelectSeq(entities, LAMBDA e : e.type_label \notin {NoneVal, ""})[k].type_label]

ItemsOf(canonical, first_id) ==
    [k \in DOMAIN canonical |->
        [cluster |-> canonical[k].canonical_cluster_index,
         entity |-> first_id + canonical[k].extracted_index + 1]]

\* canonical_entity_by_cluster at lines 221-227, in insertion order; the entity of
\* extracted index i has the id first_id + i + 1
canonical_entity_by_cluster(plan, first_id) ==
    ItemsOf(SelectSeq(plan.assignments, LAMBDA a : ~a.merged), first_id)

ItemOf(by_cluster, found) ==
    IF found = {} THEN NoId ELSE SomeId(by_cluster[CHOOSE k \in found : TRUE].entity)

\* canonical_entity_by_cluster.get(cluster_index): the entity id, or None
ByCluster(by_cluster, cluster_index) ==
    IF cluster_index = NoId THEN NoId
    ELSE ItemOf(by_cluster, {k \in DOMAIN by_cluster : by_cluster[k].cluster = cluster_index[1]})

LocalAudit(conversation_id, survivor, merged, assignment) ==
    [conversation_id |-> conversation_id, survivor_entity_id |-> survivor,
     merged_entity_ids |-> <<merged>>,
     reason_for_merge |-> IF assignment.reason_for_merge \in {NoneVal, ""} THEN "unknown"
                          ELSE assignment.reason_for_merge,
     confidence |-> assignment.confidence, merge_scope |-> "conversation"]

MergeLocal(db, ctx, assignment, merged, canonical) ==
    IF ~assignment.merged \/ canonical = NoId THEN db
    ELSE [db EXCEPT !.entities[merged].merged_into_id = canonical,
                    !.audits = Append(@, LocalAudit(ctx.conversation_id, canonical[1], merged,
                                                    assignment))]

RECURSIVE MergeLocals(_, _, _)
\* lines 234-257: every locally merged entity points at the entity of its cluster
MergeLocals(db, ctx, k) ==
    IF k > Len(ctx.plan.assignments) THEN db
    ELSE MergeLocals(
            MergeLocal(db, ctx, ctx.plan.assignments[k],
                       ctx.first_id + ctx.plan.assignments[k].extracted_index + 1,
                       ByCluster(ctx.by_cluster,
                                 SomeId(ctx.plan.assignments[k].canonical_cluster_index))),
            ctx, k + 1)

RECURSIVE AdditionsFrom(_, _, _, _)
AddCandidate(candidates, canonical_key, seen_keys, aliases, cleaned, key) ==
    IF cleaned = "" \/ key = "" \/ key = canonical_key \/ key \in seen_keys
    THEN AdditionsFrom(Tail(candidates), canonical_key, seen_keys, aliases)
    ELSE AdditionsFrom(Tail(candidates), canonical_key, seen_keys \cup {key},
                       Append(aliases, cleaned))

\* the loop of _extract_alias_additions over the remaining candidates
AdditionsFrom(candidates, canonical_key, seen_keys, aliases) ==
    IF candidates = <<>> THEN aliases
    ELSE AddCandidate(candidates, canonical_key, seen_keys, aliases, Strip(Head(candidates)),
                      alias_key(Strip(Head(candidates))))

\* _extract_alias_additions
extract_alias_additions(candidates, canonical_name) ==
    AdditionsFrom(candidates, alias_key(canonical_name), {}, <<>>)

\* ResolutionEvent(...); the ids of the source messages are left out
ResolutionEvent(conversation_id, event_type, entity_ids, similarity_score, rationale) ==
    [conversation_id |-> conversation_id, event_type |-> event_type,
     entity_ids |-> entity_ids, similarity_score |-> similarity_score,
     rationale |-> rationale]

\* value or fallback
OrText(value, fallback) == IF value \in {NoneVal, ""} THEN fallback ELSE value

\* max(0.0, min(1.0, value))
Clamp(value) == RatMax(Zero, IF RatGt(value, One) THEN One ELSE value)

\* one alias_add event for every alias addition
AliasEvents(conversation_id, entity_ids, similarity_score, additions) ==
    [k \in DOMAIN additions |->
        ResolutionEvent(conversation_id, "alias_add", entity_ids, similarity_score,
                        "alias_observed:" \o additions[k])]

\* the events of a merged assignment with the merged entity named first
MergedEvents_merged_first(conversation_id, assignment, extracted, canonical, resolved, rows) ==
    <<ResolutionEvent(conversation_id, "match", <<canonical, resolved>>, assignment.confidence,
                      OrText(assignment.reason_for_merge, "resolved_to_existing_canonical")),
      ResolutionEvent(conversation_id, "merge", <<resolved, canonical>>, assignment.confidence,
                      OrText(assignment.reason_for_merge, "merged_into_canonical"))>>
    \o AliasEvents(conversation_id, <<canonical, resolved>>, assignment.confidence,
                   extract_alias_additions(<<rows[resolved].name>> \o extracted.aliases,
                                           rows[canonical].canonical_name))

\* the events of a merged assignment
MergedEvents(conversation_id, assignment, extracted, canonical, resolved, rows) ==
    <<ResolutionEvent(conversation_id, "match", <<canonical, resolved>>, assignment.confidence,
                      OrText(assignment.reason_for_merge, "resolved_to_existing_canonical")),
      ResolutionEvent(conversation_id, "merge", <<canonical, resolved>>, assignment.confidence,
                      OrText(assignment.reason_for_merge, "merged_into_canonical"))>>
    \o AliasEvents(conversation_id, <<canonical, resolved>>, assignment.confidence,
                   extract_alias_additions(<<rows[resolved].name>> \o extracted.aliases,
                                           rows[canonical].canonical_name))

\* the events of an assignment that is not merged
CanonicalEvents(conversation_id, extracted, canonical, resolved, rows) ==
    <<IF canonical # resolved
      THEN ResolutionEvent(conversation_id, "match", <<canonical, resolved>>,
                           Clamp(rows[resolved].resolution_confidence),
                           "resolved_to_existing_global_canonical")
      ELSE ResolutionEvent(conversation_id, "match", <<resolved>>, One,
                           "canonical_entity_created")>>
    \o AliasEvents(conversation_id, <<resolved>>, One,
                   extract_alias_additions(extracted.aliases, rows[canonical].canonical_name))

EventsOf(conversation_id, assignment, extracted, canonical, resolved, rows) ==
    IF assignment.merged
    THEN MergedEvents(conversation_id, assignment, extracted, canonical, resolved, rows)
    ELSE CanonicalEvents(conversation_id, extracted, canonical, resolved, rows)

\* canonical_entity_by_cluster.get(cluster_index, resolved_entity)
CanonicalOr(found, resolved) == IF found = NoId THEN resolved ELSE found[1]

RECURSIVE EventsFrom(_, _, _)
EventsFrom(db, ctx, k) ==
    IF k > Len(ctx.plan.assignments) THEN <<>>
    ELSE EventsOf(ctx.conversation_id, ctx.plan.assignments[k],
                  ctx.result.entities[ctx.plan.assignments[k].extracted_index + 1],
                  CanonicalOr(ByCluster(ctx.by_cluster,
                                        SomeId(ctx.plan.assignments[k].canonical_cluster_index)),
                              ctx.first_id + ctx.plan.assignments[k].extracted_index + 1),
                  ctx.first_id + ctx.plan.assignments[k].extracted_index + 1,
                  db.entities)
         \o EventsFrom(db, ctx, k + 1)

\* _build_resolution_events
build_resolution_events(db, ctx) == EventsFrom(db, ctx, 1)

\* lines 258-268: the events of the run are added
AddEvents(db, ctx) == [db EXCEPT !.events = @ \o build_resolution_events(db, ctx)]

\* ConversationEntityLink(...); the ids of the source messages are left out
ConversationEntityLink(conversation_id, entity_id) ==
    [conversation_id |-> conversation_id, entity_id |-> entity_id]

\* _upsert_conversation_entity_links: one link per cluster of canonical_entity_by_cluster
upsert_conversation_entity_links(db, ctx) ==
    [db EXCEPT !.links = @ \o [k \in DOMAIN ctx.by_cluster |->
        ConversationEntityLink(ctx.conversation_id, ctx.by_cluster[k].entity)]]

\* uq_conversation_entity_links_conversation_entity is violated by the rows
UniqueViolation(rows) == \E i, j \in DOMAIN rows : i < j /\ rows[i] = rows[j]

\* the registry after a register call, with the call counted
Registered(db, kind, value, outcome) ==
    [db EXCEPT !.registry = outcome.reg,
               !.calls[kind] = @ + 1,
               !.last = [value |-> value, kind |-> kind, decision |-> outcome.decision],
               !.decision = outcome.decision]

FactRow(conversation_id, subject, predicate) ==
    [conversation_id |-> conversation_id, subject_entity_id |-> subject, predicate |-> predicate]

AddFact(db, ctx, subject) ==
    [db EXCEPT !.facts = Append(@, FactRow(ctx.conversation_id, subject,
                                           db.decision.canonical_predicate)),
               !.field_observations = Append(@, db.decision.canonical_predicate)]

\* lines 278-315 for one extracted fact
PersistFact(db, ctx, fact, subject) ==
    IF subject = NoId THEN db
    ELSE AddFact(Registered(db, "fact_predicate", fact.field_label,
                            register(db.registry, fact.field_label, "fact_predicate")),
                 ctx, subject[1])

RECURSIVE PersistFacts(_, _, _)
PersistFacts(db, ctx, k) ==
    IF k > Len(ctx.result.facts) THEN db
    ELSE PersistFacts(
            PersistFact(db, ctx, ctx.result.facts[k],
                        ByCluster(ctx.by_cluster,
                                  resolve_reference(ctx.plan, ctx.result.facts[k].entity_name,
                                                    NoneVal))),
            ctx, k + 1)

RelationRow(conversation_id, from_entity, relation_type, to_entity) ==
    [conversation_id |-> conversation_id, from_entity_id |-> from_entity,
     relation_type |-> relation_type, to_entity_id |-> to_entity]

AddRelation(db, ctx, from_entity, to_entity) ==
    [db EXCEPT !.relations = Append(@, RelationRow(ctx.conversation_id, from_entity,
                                                   db.decision.canonical_predicate, to_entity)),
               !.relation_observations = Append(@, db.decision.canonical_predicate)]

\* lines 319-357 for one extracted relation
PersistRelation(db, ctx, relation, from_entity, to_entity) ==
    IF from_entity = NoId \/ to_entity = NoId THEN db
    ELSE AddRelation(Registered(db, "relation_type", relation.relation_label,
                                register(db.registry, relation.relation_label, "relation_type")),
                     ctx, from_entity[1], to_entity[1])

RECURSIVE PersistRelations(_, _, _)
PersistRelations(db, ctx, k) ==
    IF k > Len(ctx.result.relations) THEN db
    ELSE PersistRelations(
            PersistRelation(db, ctx, ctx.result.relations[k],
                ByCluster(ctx.by_cluster,
                          resolve_reference(ctx.plan, ctx.result.relations[k].from_entity,
                                            NoneVal)),
                ByCluster(ctx.by_cluster,
                          resolve_reference(ctx.plan, ctx.result.relations[k].to_entity,
                                            NoneVal))),
            ctx, k + 1)

\* _apply_embeddings_on_write: every entity row of the run gets a vector
apply_embeddings_on_write(db, ctx) ==
    [db EXCEPT !.entities =
        [i \in DOMAIN @ |-> IF i > ctx.first_id THEN [@[i] EXCEPT !.embedding = ctx.rows]
                            ELSE @[i]]]

RECURSIVE UpsertLabels(_, _, _)
\* the loop of _upsert_schema_registry
UpsertLabels(rows, labels, vector) ==
    IF labels = <<>> THEN rows
    ELSE UpsertLabels(upsert_schema_registry(rows, Head(labels), vector), Tail(labels), vector)

\* _apply_schema_on_write
apply_schema_on_write(db, ctx) ==
    [db EXCEPT !.schema =
        [@ EXCEPT !["schema_nodes"] =
                      UpsertLabels(@, Observed(TypeLabels(ctx.result.entities), <<>>), ctx.vector),
                  !["schema_fields"] =
                      UpsertLabels(@, Observed(db.field_observations, <<>>), ctx.vector),
                  !["schema_relations"] =
                      UpsertLabels(@, Observed(db.relation_observations, <<>>), ctx.vector)]]

Stabilized(db, stabilized) ==
    [db EXCEPT !.schema = stabilized.schema, !.proposals = stabilized.proposals]

InlineStabilized(db) == Stabilized(db, run_schema_stabilization(db.schema, db.proposals))

\* lines 368-382: embeddings and stabilization only when the mode is "inline"
PostProcess(db, ctx) ==
    IF ctx.mode = "inline"
    THEN InlineStabilized(apply_schema_on_write(apply_embeddings_on_write(db, ctx), ctx))
    ELSE apply_schema_on_write(db, ctx)

\* lines 221-384, from the result of the global matcher on
PersistWith(db, ctx) ==
    PostProcess(
        upsert_conversation_entity_links(
            PersistRelations(PersistFacts(AddEvents(MergeLocals(db, ctx, 1), ctx), ctx, 1),
                             ctx, 1),
            ctx),
        ctx)

\* lines 228-233: the entities, the merge audits and the scans of the global matcher
PersistMatched(db, ctx, matched) ==
    PersistWith([db EXCEPT !.entities = matched.entities,
                           !.audits = @ \o matched.audits,
                           !.scans = matched.scans],
                [ctx EXCEPT !.by_cluster = matched.by_cluster])

PersistEntities(db, ctx, entities) ==
    PersistMatched(db, ctx,
        apply_global_entity_matching(entities, ctx.conversation_id, ctx.by_cluster,
            {ctx.first_id + i : i \in DOMAIN ctx.result.entities}, ctx.hashed))

\* lines 183-220: one Entity row per extracted entity, then the global matcher
PersistResolved(db, ctx) ==
    PersistEntities(db, ctx,
        db.entities \o [i \in DOMAIN ctx.result.entities |->
                          EntityRow(ctx.conversation_id, ctx.result.entities[i],
                                    AssignmentAt(ctx.plan, i - 1))])

RunContext(db, conversation_id, result, mode, embedder, plan) ==
    [conversation_id |-> conversation_id, result |-> result, mode |-> mode,
     hashed |-> embedder.hashed, vector |-> embedder.vector, rows |-> embedder.rows,
     plan |-> plan,
     first_id |-> Len(db.entities),
     by_cluster |-> canonical_entity_by_cluster(plan, Len(db.entities))]

Resolved(db, conversation_id, result, mode, embedder) ==
    PersistResolved(db, RunContext(db, conversation_id, result, mode, embedder,
                                   resolve(result.entities, embedder.hashed)))

\* _replace_extracted_records
replace_extracted_records(db, conversation_id, result, mode, embedder) ==
    Resolved(DeletePrior(db, conversation_id), conversation_id,
             normalize_extraction_payload(result), mode, embedder)

(***************************************************************************)
(* State                                                                   *)
(***************************************************************************)
VARIABLES
    registry,       \* predicate_registry table: entry id -> row
    regCalls,       \* kind -> number of register calls made
    lastRegister,   \* the last register call: its input and its decision
    schema,         \* table name -> the rows of schema_fields / _relations / _nodes
    proposals,      \* schema_proposals table
    observed,       \* number of label observations written so far
    stabilized,     \* number of stabilization runs so far
    lastSchemaOp,   \* the last operation on the schema registries and its result
    batch,          \* the extracted entities last handed to resolve
    plan,           \* the plan resolve returned for batch
    entities,       \* entities table: id -> row
    facts,          \* facts table
    relations,      \* relations table
    audits,         \* entity_merge_audits table
    events,         \* resolution_events table
    links,          \* conversation_entity_links table
    runs,           \* number of extraction runs made so far
    lastRun,        \* the last extraction run: its conversation and what the matcher scanned
    oracle,         \* the last borderline pair handed to the disambiguation oracle
    pending,        \* the runs that have flushed and not committed, in the order they began
    scored          \* the last call of string_similarity: its arguments and its result

registryVars == <<registry, regCalls, lastRegister>>
schemaVars == <<schema, proposals, observed, stabilized, lastSchemaOp>>
resolverVars == <<batch, plan, oracle, scored>>
extractionVars == <<entities, facts, relations, audits, events, links, runs, lastRun>>
vars == <<registryVars, schemaVars, resolverVars, extractionVars, pending>>

NoCall == [value |-> NoneVal, kind |-> NoneVal, decision |-> NoneVal]

NoRun ==
    [conversation_id |-> NoneVal, first_id |-> 0, scans |-> <<>>, raised |-> FALSE,
     extracted |-> <<>>, hashed |-> Zero, embedded |-> <<>>]

NoScore == [left |-> NoneVal, right |-> NoneVal, similarity |-> Zero]

NoOracleCall ==
    [compared |-> FALSE, settings |-> NoneVal, reply |-> NoneVal, similarity |-> Zero,
     local |-> NoMatch, local_raises |-> NoneVal,
     global |-> NoSurvivor, global_raises |-> NoneVal]

Init ==
    /\ registry = <<>>
    /\ regCalls = [k \in PredicateKinds |-> 0]
    /\ lastRegister = NoCall
    /\ schema = [t \in Range(SchemaTables) |-> <<>>]
    /\ proposals = <<>>
    /\ observed = 0
    /\ stabilized = 0
    /\ lastSchemaOp = [op |-> "none"]
    /\ batch = <<>>
    /\ plan = resolve(<<>>, Zero)
    /\ entities = <<>>
    /\ facts = <<>>
    /\ relations = <<>>
    /\ audits = <<>>
    /\ events = <<>>
    /\ links = <<>>
    /\ runs = 0
    /\ lastRun = NoRun
    /\ oracle = NoOracleCall
    /\ pending = <<>>
    /\ scored = NoScore

(***************************************************************************)
(* SpecRegistry: register calls on an empty registry                       *)
(***************************************************************************)
RegisterApply(value, kind, r) ==
    /\ registry' = r.reg
    /\ lastRegister' = [value |-> value, kind |-> kind, decision |-> r.decision]

Register(value, kind) ==
    /\ regCalls["fact_predicate"] + regCalls["relation_type"] < MaxRegisterCalls
    /\ RegisterApply(value, kind, register(registry, value, kind))
    /\ regCalls' = [regCalls EXCEPT ![kind] = @ + 1]
    /\ UNCHANGED <<schemaVars, resolverVars, extractionVars, pending>>

NextRegistry == \E value \in RegisterValues, kind \in PredicateKinds : Register(value, kind)

SpecRegistry == Init /\ [][NextRegistry]_vars

(***************************************************************************)
(* SpecStabilize: label observations and stabilization runs                *)
(***************************************************************************)
\* _apply_schema_on_write with one observed label
Observe(table, label, vector) ==
    /\ observed < MaxObservations
    /\ normalize_schema_label(label) # ""
    /\ schema' = [schema EXCEPT ![table] =
                     upsert_schema_registry(@, normalize_schema_label(label), vector)]
    /\ observed' = observed + 1
    /\ lastSchemaOp' = [op |-> "observe"]
    /\ UNCHANGED <<proposals, stabilized, registryVars, resolverVars, extractionVars, pending>>

StabilizeApply(db) ==
    /\ schema' = db.schema
    /\ proposals' = db.proposals
    /\ lastSchemaOp' = [op |-> "stabilize", proposals_created |-> db.created,
                        auto_accepted |-> db.accepted]

\* run_schema_stabilization_job, in the session of the run before or in a new one
Stabilize(fresh) ==
    /\ stabilized < MaxStabilizeRuns
    /\ StabilizeApply(run_schema_stabilization(IF fresh THEN FreshSession(schema) ELSE schema,
                                               proposals))
    /\ stabilized' = stabilized + 1
    /\ UNCHANGED <<observed, registryVars, resolverVars, extractionVars, pending>>

NextStabilize ==
    \/ \E table \in Range(SchemaTables) :
         \E label \in SchemaLabels[table], vector \in EmbeddingVectors :
            Observe(table, label, vector)
    \/ \E fresh \in BOOLEAN : Stabilize(fresh)

SpecStabilize == Init /\ [][NextStabilize]_vars

\* the sessions that may be open at the same time
MaxPending == 2

\* the rows a session added to those it found
AddedRows(found, rows) == SubSeq(rows, Len(found) + 1, Len(rows))

(***************************************************************************)
(* SpecJobs: stabilization jobs that are active at the same time, each in  *)
(* a session of its own (READ COMMITTED). A job executes its statements on *)
(* what is committed and commits in a later step; the jobs commit in the   *)
(* order they began. The flush that ends a table (line 109) waits where it *)
(* updates a row the job before has updated, and the tables after it are   *)
(* read when that job has committed.                                       *)
(***************************************************************************)
\* the position of a table in the order of run_schema_stabilization
TableIndex(table) == CHOOSE n \in DOMAIN SchemaTables : SchemaTables[n] = table

\* the stored rows of a table whose canonical_of_id a job has set
MergedLabels(job, table) ==
    {i \in DOMAIN job.view.schema[table] :
        job.db.schema[table][i].canonical_of_id # job.view.schema[table][i].canonical_of_id}

\* the tables at whose flush the job waits for the job before it
WaitsAt(job) ==
    IF pending = <<>> THEN {}
    ELSE {n \in DOMAIN SchemaTables :
            MergedLabels(job, SchemaTables[n])
                \cap MergedLabels(pending[Len(pending)], SchemaTables[n]) # {}}

\* the first table at whose flush the job waits, 0 where it waits at none
FirstWait(job) ==
    IF WaitsAt(job) = {} THEN 0
    ELSE CHOOSE n \in WaitsAt(job) : \A m \in WaitsAt(job) : n <= m

\* SessionLocal(), and run_schema_stabilization on what is committed
NewJob ==
    [view |-> [schema |-> FreshSession(schema), proposals |-> proposals],
     db |-> run_schema_stabilization(FreshSession(schema), proposals), waited |-> 0]

Started(job) == [job EXCEPT !.waited = FirstWait(job)]

\* the job updates no row that a pending job other than the last has updated
\* and the last has not
WaitsForLast(job) ==
    \A k \in DOMAIN pending, table \in Range(SchemaTables) :
        MergedLabels(job, table) \cap MergedLabels(pending[k], table) # {}
            => MergedLabels(job, table) \cap MergedLabels(pending[Len(pending)], table) # {}

\* run_schema_stabilization_job up to db.commit(), or up to the flush it waits at
BeginStabilize ==
    /\ stabilized + Len(pending) < MaxStabilizeRuns
    /\ Len(pending) < MaxPending
    /\ \A k \in DOMAIN pending : pending[k].waited = 0
    /\ WaitsForLast(NewJob)
    /\ pending' = Append(pending, Started(NewJob))
    /\ UNCHANGED <<schemaVars, registryVars, resolverVars, extractionVars>>

\* what a job that has waited reads for the tables after the flush
ViewAfterFlush(job) ==
    [schema |-> [table \in DOMAIN schema |->
                    IF TableIndex(table) <= job.waited THEN job.view.schema[table]
                    ELSE FreshSession(schema)[table]],
     proposals |-> proposals]

\* the tables up to the flush, stabilized on what the job read when it began
BeforeFlush(job) ==
    StabilizeTables([schema |-> job.view.schema, proposals |-> job.view.proposals,
                     created |-> 0, accepted |-> 0],
                    SubSeq(SchemaTables, 1, job.waited))

\* the tables after the flush, stabilized on what is committed by then and on
\* the proposals of the job itself
AfterFlush(job) ==
    StabilizeTables([schema |-> [table \in DOMAIN schema |->
                                    IF TableIndex(table) <= job.waited
                                    THEN BeforeFlush(job).schema[table]
                                    ELSE FreshSession(schema)[table]],
                     proposals |-> proposals \o AddedRows(job.view.proposals,
                                                          BeforeFlush(job).proposals),
                     created |-> BeforeFlush(job).created,
                     accepted |-> BeforeFlush(job).accepted],
                    SubSeq(SchemaTables, job.waited + 1, Len(SchemaTables)))

Finished(job) ==
    IF job.waited = 0 THEN job
    ELSE [job EXCEPT !.view = ViewAfterFlush(job), !.db = AfterFlush(job)]

\* db.commit() of a job: its proposals are inserted, the canonical_of_id it has
\* set are stored
CommitJob(job) ==
    /\ schema' = [table \in DOMAIN schema |-> [i \in DOMAIN schema[table] |->
                     IF i \in MergedLabels(job, table)
                     THEN [schema[table][i] EXCEPT
                              !.canonical_of_id = job.db.schema[table][i].canonical_of_id]
                     ELSE schema[table][i]]]
    /\ proposals' = proposals \o AddedRows(job.view.proposals, job.db.proposals)
    /\ lastSchemaOp' = [op |-> "stabilize", proposals_created |-> job.db.created,
                        auto_accepted |-> job.db.accepted]

\* the job that began first commits
CommitStabilize ==
    /\ pending # <<>>
    /\ CommitJob(Finished(pending[1]))
    /\ pending' = Tail(pending)
    /\ stabilized' = stabilized + 1
    /\ UNCHANGED <<observed, registryVars, resolverVars, extractionVars>>

\* _apply_schema_on_write while no job is active
ObserveBetween(table, label, vector) ==
    /\ pending = <<>>
    /\ Observe(table, label, vector)

NextJobs ==
    \/ \E table \in Range(SchemaTables) :
         \E label \in SchemaLabels[table], vector \in EmbeddingVectors :
            ObserveBetween(table, label, vector)
    \/ BeginStabilize
    \/ CommitStabilize

SpecJobs == Init /\ [][NextJobs]_vars

(***************************************************************************)
(* SpecSimilarity: string_similarity on pairs of texts                     *)
(***************************************************************************)
\* texts that normalize to nothing, texts with equal normalized forms, texts of
\* one and of two tokens
SimilarityTexts ==
    {"", "  ", "!!", "Acme", "ACME!", " acme  corp", "Corp Acme", "tide", "diet",
     "tide co", "diet co"}

\* string_similarity(left, right)
Score(left, right) ==
    /\ scored' = [left |-> left, right |-> right, similarity |-> string_similarity(left, right)]
    /\ UNCHANGED <<batch, plan, oracle, pending, registryVars, schemaVars, extractionVars>>

NextSimilarity == \E left \in SimilarityTexts, right \in SimilarityTexts : Score(left, right)

SpecSimilarity == Init /\ [][NextSimilarity]_vars

(***************************************************************************)
(* SpecResolve: resolve on batches of extracted entities                   *)
(***************************************************************************)
\* EntityResolver().resolve on the batch so far and one more entity
Resolve(entity, hashed) ==
    /\ Len(batch) < MaxBatch
    /\ batch' = Append(batch, entity)
    /\ plan' = resolve(Append(batch, entity), hashed)
    /\ UNCHANGED <<oracle, scored, pending, registryVars, schemaVars, extractionVars>>

NextResolve == \E entity \in ExtractedEntities, hashed \in HashSimilarities : Resolve(entity, hashed)

SpecResolve == Init /\ [][NextResolve]_vars

(***************************************************************************)
(* SpecOracle: a borderline pair and what the disambiguation oracle does   *)
(***************************************************************************)
\* enable_resolution_llm_disambiguation and openai_api_key of the settings
OracleSettings ==
    {[enable |-> e, openai_api_key |-> k] : e \in BOOLEAN, k \in {NoneVal, "", "sk-test"}}

\* what urlopen and resp.read() do
OracleTransports == {"url_error", "http_error", "connect_timeout", "read_timeout", "ok"}

\* the body of a response that was read: its shape, down to the content of the
\* first choice and the same_entity member of the object it holds
OracleBodies ==
    {"not_utf8", "not_json", "array", "no_choices", "empty_choices", "content_null",
     "content_text", "content_array", "content_json_null", "content_json_true",
     "same_entity_missing", "same_entity_false", "same_entity_zero",
     "same_entity_text_false", "same_entity_one", "same_entity_true"}

OracleReplies ==
    {[transport |-> t, body |-> b] : t \in OracleTransports, b \in OracleBodies}

\* the embedding similarities of the pair
OracleSimilarities == {Rat(83, 100), Rat(86, 100), Rat(91, 100)}

\* the except clause at line 372
CaughtByOracle ==
    {"URLError", "HTTPError", "KeyError", "IndexError", "TypeError", "JSONDecodeError"}

Returned(value) == [returns |-> value, raises |-> NoneVal]

Raised(exception) == [returns |-> FALSE, raises |-> exception]

\* lines 367-371: decode, json.loads, decoded["choices"][0]["message"]["content"],
\* json.loads(content), bool(result.get("same_entity"))
ReadBody(body) ==
    CASE body = "not_utf8" -> Raised("UnicodeDecodeError")
      [] body \in {"not_json", "content_text"} -> Raised("JSONDecodeError")
      [] body \in {"array", "content_null"} -> Raised("TypeError")
      [] body = "no_choices" -> Raised("KeyError")
      [] body = "empty_choices" -> Raised("IndexError")
      [] body \in {"content_array", "content_json_null", "content_json_true"} ->
             Raised("AttributeError")
      [] body \in {"same_entity_missing", "same_entity_false", "same_entity_zero"} ->
             Returned(FALSE)
      [] OTHER -> Returned(TRUE)

\* lines 366-367: urlopen wraps the errors of the connection in URLError, a
\* timeout while the response is read is raised as it is
ReadReply(reply) ==
    CASE reply.transport \in {"url_error", "connect_timeout"} -> Raised("URLError")
      [] reply.transport = "http_error" -> Raised("HTTPError")
      [] reply.transport = "read_timeout" -> Raised("TimeoutError")
      [] OTHER -> ReadBody(reply.body)

\* the try statement of lines 365-373
Caught(outcome) ==
    IF outcome.raises \in CaughtByOracle THEN Returned(FALSE) ELSE outcome

\* llm_entity_disambiguation with the settings and the reply of the provider
OracleAnswer(settings, reply) ==
    IF ~settings.enable \/ settings.openai_api_key \in {NoneVal, ""} THEN Returned(FALSE)
    ELSE Caught(ReadReply(reply))

NotAsked == Returned(FALSE)

\* _EntityCluster.match from the embedding score on: the oracle is asked for a
\* borderline score only
MatchWithOracle(embedding_score, settings, reply) ==
    IF RatGe(embedding_score, EMBEDDING_SIMILARITY_THRESHOLD)
       \/ ~RatGe(embedding_score, BORDERLINE_EMBEDDING_MIN)
    THEN NotAsked
    ELSE OracleAnswer(settings, reply)

\* _find_best_global_entity_match after a scan of one candidate: the oracle is
\* asked when there is a borderline candidate and no match
AnswerAfterScan(found, settings, reply) ==
    IF found.rule = "borderline" THEN OracleAnswer(settings, reply) ELSE NotAsked

TrackedIf(rule, found) ==
    IF found.rule = rule THEN Survivor(1, found.rule, found.score) ELSE NoSurvivor

OracleCall(settings, reply, similarity, local, found, global) ==
    [compared |-> TRUE, settings |-> settings, reply |-> reply, similarity |-> similarity,
     local |-> IF local.raises # NoneVal THEN NoMatch
               ELSE MatchByEmbeddingWith(similarity, local.returns),
     local_raises |-> local.raises,
     global |-> IF global.raises # NoneVal THEN NoSurvivor
                ELSE AfterScanWith(TrackedIf("global_embedding_similarity", found),
                                   TrackedIf("borderline", found), global.returns),
     global_raises |-> global.raises]

\* a pair with the embedding similarity given is what the resolver and the
\* global matcher come to after the string rules
Disambiguate(settings, reply, similarity) ==
    /\ oracle' = OracleCall(settings, reply, similarity,
                            MatchWithOracle(similarity, settings, reply),
                            RuleByEmbedding(similarity),
                            AnswerAfterScan(RuleByEmbedding(similarity), settings, reply))
    /\ UNCHANGED <<batch, plan, scored, pending, registryVars, schemaVars, extractionVars>>

NextOracle ==
    \E settings \in OracleSettings, reply \in OracleReplies, similarity \in OracleSimilarities :
        Disambiguate(settings, reply, similarity)

SpecOracle == Init /\ [][NextOracle]_vars

(***************************************************************************)
(* Spec: extraction runs on the conversations                              *)
(***************************************************************************)
\* the store as the session of a run finds it
Store ==
    [entities |-> entities, facts |-> facts, relations |-> relations, audits |-> audits,
     events |-> events, links |-> links,
     registry |-> registry, calls |-> regCalls, last |-> lastRegister, decision |-> NoneVal,
     schema |-> FreshSession(schema), proposals |-> proposals, scans |-> <<>>,
     field_observations |-> <<>>, relation_observations |-> <<>>]

\* lines 368-379: the clients that answered the embedding calls of the run, the
\* rows of _apply_embeddings_on_write first, then the labels of _apply_schema_on_write
EmbeddingCalls(mode, embedder) ==
    IF mode = "inline" THEN <<embedder.rows, embedder.labels>> ELSE <<embedder.labels>>

\* db.commit()
Commit(conversation_id, result, mode, embedder, db) ==
    /\ entities' = db.entities
    /\ facts' = db.facts
    /\ relations' = db.relations
    /\ audits' = db.audits
    /\ events' = db.events
    /\ links' = db.links
    /\ registry' = db.registry
    /\ regCalls' = db.calls
    /\ lastRegister' = db.last
    /\ schema' = db.schema
    /\ proposals' = db.proposals
    /\ lastSchemaOp' = [op |-> "extract"]
    /\ lastRun' = [conversation_id |-> conversation_id, first_id |-> Len(entities),
                   scans |-> db.scans, raised |-> FALSE,
                   extracted |-> result.entities, hashed |-> embedder.hashed,
                   embedded |-> EmbeddingCalls(mode, embedder)]

\* a session that is committed up to the deletion although the run raised
Rollback_keeps_deletion(conversation_id, db) ==
    /\ lastRun' = [NoRun EXCEPT !.conversation_id = conversation_id,
                                !.first_id = Len(entities),
                                !.scans = db.scans,
                                !.raised = TRUE]
    /\ facts' = DeleteOf(facts, conversation_id)
    /\ relations' = DeleteOf(relations, conversation_id)
    /\ links' = DeleteOf(links, conversation_id)
    /\ events' = DeleteOf(events, conversation_id)
    /\ audits' = DeleteOf(audits, conversation_id)
    /\ UNCHANGED <<entities, registryVars, schema, proposals, lastSchemaOp>>

\* the run raises before db.commit(): the exception leaves
\* run_extraction_for_conversation and the session is closed with nothing committed
Rollback(conversation_id, db) ==
    /\ lastRun' = [NoRun EXCEPT !.conversation_id = conversation_id,
                                !.first_id = Len(entities),
                                !.scans = db.scans,
                                !.raised = TRUE]
    /\ UNCHANGED <<entities, facts, relations, audits, events, links, registryVars,
                   schema, proposals, lastSchemaOp>>

\* the end of the run: the rows are flushed and committed, or the flush raises
\* IntegrityError on the unique constraint of the links
Finish(conversation_id, result, mode, embedder, db) ==
    IF UniqueViolation(db.links) THEN Rollback(conversation_id, db)
    ELSE Commit(conversation_id, result, mode, embedder, db)

\* run_extraction_for_conversation with the result the extractor returned
Extract(conversation_id, result, mode, embedder) ==
    /\ runs < MaxExtractionRuns
    /\ Finish(conversation_id, result, mode, embedder,
              replace_extracted_records(Store, conversation_id, result, mode, embedder))
    /\ runs' = runs + 1
    /\ UNCHANGED <<observed, stabilized, resolverVars, pending>>

\* run_extraction_for_conversation when a step after the deletion of the prior
\* records raises (the extractor's output cannot be stored, a provider error
\* that is not caught, the database refuses a statement)
ExtractRaises(conversation_id) ==
    /\ runs < MaxExtractionRuns
    /\ Rollback(conversation_id, DeletePrior(Store, conversation_id))
    /\ runs' = runs + 1
    /\ UNCHANGED <<observed, stabilized, resolverVars, pending>>

Next ==
    \/ \E conversation_id \in Conversations, result \in ExtractionResults,
          mode \in PostProcessingModes, embedder \in Embedders :
           Extract(conversation_id, result, mode, embedder)
    \/ \E conversation_id \in Conversations : ExtractRaises(conversation_id)

Spec == Init /\ [][Next]_vars

(***************************************************************************)
(* SpecChain: extraction runs on a store that holds a merge chain          *)
(***************************************************************************)
\* the store of a new database
EmptyStore ==
    [entities |-> <<>>, facts |-> <<>>, relations |-> <<>>, audits |-> <<>>,
     events |-> <<>>, links |-> <<>>,
     registry |-> <<>>, calls |-> [k \in PredicateKinds |-> 0], last |-> NoCall,
     decision |-> NoneVal,
     schema |-> [t \in Range(SchemaTables) |-> <<>>], proposals |-> <<>>, scans |-> <<>>,
     field_observations |-> <<>>, relation_observations |-> <<>>]

\* what the session of the next run finds of a session that was committed
Reopened(db) ==
    [db EXCEPT !.decision = NoneVal, !.schema = FreshSession(@), !.scans = <<>>,
               !.field_observations = <<>>, !.relation_observations = <<>>]

\* the extractor's output for conversation X, and then for conversation Y
FirstOutput ==
    [entities |-> <<[name |-> "Acme", type_label |-> NoneVal, aliases |-> <<>>]>>,
     facts |-> <<[entity_name |-> "Acme", field_label |-> "Reported Revenues"]>>,
     relations |-> <<>>]

SecondOutput ==
    [entities |-> <<[name |-> "Globex Holdings", type_label |-> NoneVal, aliases |-> <<"Acme">>],
                    [name |-> "Globex Holding", type_label |-> "Unspecified", aliases |-> <<>>]>>,
     facts |-> <<[entity_name |-> "Globex Holding", field_label |-> "reported_revenue"]>>,
     relations |-> <<[from_entity |-> "Globex Holding", relation_label |-> "impacted-by",
                      to_entity |-> "Globex Holdings"]>>]

OfflineEmbedder ==
    [hashed |-> Rat(86, 100), vector |-> <<0, 25>>, rows |-> "hash", labels |-> "hash"]

\* the store after run_extraction_for_conversation on X and then on Y
ChainStore ==
    replace_extracted_records(
        Reopened(replace_extracted_records(EmptyStore, "X", FirstOutput, "none",
                                           OfflineEmbedder)),
        "Y", SecondOutput, "none", OfflineEmbedder)

InitChain ==
    /\ entities = ChainStore.entities
    /\ facts = ChainStore.facts
    /\ relations = ChainStore.relations
    /\ audits = ChainStore.audits
    /\ events = ChainStore.events
    /\ links = ChainStore.links
    /\ registry = ChainStore.registry
    /\ regCalls = ChainStore.calls
    /\ lastRegister = ChainStore.last
    /\ schema = ChainStore.schema
    /\ proposals = ChainStore.proposals
    /\ observed = 0
    /\ stabilized = 0
    /\ lastSchemaOp = [op |-> "extract"]
    /\ batch = <<>>
    /\ plan = resolve(<<>>, Zero)
    /\ runs = 0
    /\ lastRun = NoRun
    /\ oracle = NoOracleCall
    /\ pending = <<>>
    /\ scored = NoScore

SpecChain == InitChain /\ [][Next]_vars

(***************************************************************************)
(* SpecOverlap: requests to extract that are served at the same time, each *)
(* in a session of its own (READ COMMITTED). A run executes its statements *)
(* and commits in a later step; the runs commit in the order they began.   *)
(* A statement that updates a row a pending run has updated waits for that *)
(* run to commit. The runs modelled beside a pending run are those whose   *)
(* waits are settled by the source: a run that waits at the flush of line  *)
(* 262 for an entity row, and executes the statements after it on what is  *)
(* committed by then; a run that meets a unique key, and raises; a run     *)
(* that waits for nothing.                                                 *)
(***************************************************************************)
\* the conversation of the entities stored before the requests
StoredConversation == "Z"

\* the store after run_extraction_for_conversation on the stored conversation
FirstStore ==
    Reopened(replace_extracted_records(EmptyStore, StoredConversation, FirstOutput, "none",
                                       OfflineEmbedder))

InitOverlap ==
    /\ entities = FirstStore.entities
    /\ facts = FirstStore.facts
    /\ relations = FirstStore.relations
    /\ audits = FirstStore.audits
    /\ events = FirstStore.events
    /\ links = FirstStore.links
    /\ registry = FirstStore.registry
    /\ regCalls = FirstStore.calls
    /\ lastRegister = FirstStore.last
    /\ schema = FirstStore.schema
    /\ proposals = FirstStore.proposals
    /\ observed = 0
    /\ stabilized = 0
    /\ lastSchemaOp = [op |-> "extract"]
    /\ batch = <<>>
    /\ plan = resolve(<<>>, Zero)
    /\ runs = 0
    /\ lastRun = NoRun
    /\ oracle = NoOracleCall
    /\ pending = <<>>
    /\ scored = NoScore

\* the entity rows pending runs have inserted: their ids are taken, and the
\* candidate query of another session does not return them (line 588 leaves
\* out the rows of the session's own conversation)
UnseenEntities(rows, conversation_id) ==
    [i \in DOMAIN rows |-> [rows[i] EXCEPT !.conversation_id = conversation_id]]

\* the registry entries pending runs have inserted: their ids are taken, and
\* the query of register, which selects by kind, does not return them
UnseenEntries(rows) == [i \in DOMAIN rows |-> [rows[i] EXCEPT !.kind = "uncommitted"]]

SeenEntities(conversation_id) ==
    IF pending = <<>> THEN entities
    ELSE entities \o UnseenEntities(AddedRows(entities, pending[Len(pending)].db.entities),
                                    conversation_id)

SeenRegistry ==
    IF pending = <<>> THEN registry
    ELSE registry \o UnseenEntries(AddedRows(registry, pending[Len(pending)].db.registry))

\* the store as the session of a run finds it while other runs are pending
View(conversation_id) ==
    [Store EXCEPT !.entities = SeenEntities(conversation_id), !.registry = SeenRegistry]

\* the conversation has rows a run would delete
HasRecords(conversation_id) ==
    \E rows \in {facts, relations, links, events, audits} :
        \E k \in DOMAIN rows : rows[k].conversation_id = conversation_id

\* the stored rows of a table a session has updated
UpdatedRows(found, rows, stored) == {i \in 1..Len(stored) : rows[i] # found[i]}

UpdatedEntities(session) ==
    UpdatedRows(session.view.entities, session.db.entities, entities)

UpdatedEntries(session) ==
    UpdatedRows(session.view.registry, session.db.registry, registry)

UpdatedLabels(session, t) ==
    UpdatedRows(session.view.schema[t], session.db.schema[t], schema[t])

\* the flush of line 262 updates an entity row the run before has updated
WaitsAtFlush(session) ==
    /\ pending # <<>>
    /\ UpdatedEntities(session) \cap UpdatedEntities(pending[Len(pending)]) # {}

\* a later statement of the session updates a row a pending run has updated
WaitsLater(session) ==
    \E k \in DOMAIN pending :
        \/ UpdatedEntities(session) \cap UpdatedEntities(pending[k]) # {}
        \/ UpdatedEntries(session) \cap UpdatedEntries(pending[k]) # {}
        \/ \E t \in DOMAIN schema :
               UpdatedLabels(session, t) \cap UpdatedLabels(pending[k], t) # {}

\* a run may begin beside the pending ones: none of them waits, its deletes
\* find no row a pending run has deleted
MayBegin(conversation_id) ==
    \A k \in DOMAIN pending :
        /\ ~pending[k].waits
        /\ pending[k].conversation_id = conversation_id => ~HasRecords(conversation_id)

\* the waits of the session are those of the cases modelled
MayOverlap(session) == session.waits \/ ~WaitsLater(session)

\* the links the session inserts
AddedLinks(session) == Range(RowsOf(session.db.links, session.conversation_id))

\* the registry entries the session inserts, by their unique key
AddedEntries(session) ==
    {<<row.kind, row.predicate>> :
        row \in Range(AddedRows(session.view.registry, session.db.registry))}

\* the schema labels the session inserts into a table
AddedLabels(session, t) ==
    {row.label : row \in Range(AddedRows(session.view.schema[t], session.db.schema[t]))}

\* an insert of the session meets a row a pending run has inserted under the
\* same unique key: the statement waits for that run to commit and then raises
\* IntegrityError. Nothing of the run that raises is kept, so the store does
\* not show which of the two ended first. A session that has waited at line
\* 262 finds the entries and labels of the run it waited for.
MeetsPending(session) ==
    \E k \in DOMAIN pending :
        \/ /\ session.conversation_id = pending[k].conversation_id
           /\ AddedLinks(session) \cap AddedLinks(pending[k]) # {}
        \/ /\ ~session.waits
           /\ AddedEntries(session) \cap AddedEntries(pending[k]) # {}
        \/ /\ ~session.waits
           /\ \E t \in DOMAIN schema :
                  AddedLabels(session, t) \cap AddedLabels(pending[k], t) # {}

Session(conversation_id, result, mode, embedder, view, db) ==
    [conversation_id |-> conversation_id, result |-> result, mode |-> mode,
     embedder |-> embedder, view |-> view, db |-> db, stale |-> FALSE, waits |-> FALSE]

\* _replace_extracted_records up to db.commit(), or up to the flush it waits at
Flush(session) ==
    IF UniqueViolation(session.db.links) \/ MeetsPending(session)
    THEN /\ Rollback(session.conversation_id, session.db)
         /\ runs' = runs + 1
         /\ UNCHANGED pending
    ELSE /\ pending' = Append(pending, session)
         /\ UNCHANGED <<extractionVars, registryVars, schema, proposals, lastSchemaOp>>

Began(session) == [session EXCEPT !.waits = WaitsAtFlush(session)]

\* the session of a request as it stands when it has executed its statements
NewSession(conversation_id, result, embedder) ==
    Began(Session(conversation_id, result, "none", embedder, View(conversation_id),
                  replace_extracted_records(View(conversation_id), conversation_id, result,
                                            "none", embedder)))

\* POST /conversations/{conversation_id}/extract: run_extraction_for_conversation
\* with post_processing_mode "none", up to the commit
BeginRun(conversation_id, result, embedder) ==
    /\ runs + Len(pending) < MaxExtractionRuns
    /\ Len(pending) < MaxPending
    /\ MayBegin(conversation_id)
    /\ MayOverlap(NewSession(conversation_id, result, embedder))
    /\ Flush(NewSession(conversation_id, result, embedder))
    /\ UNCHANGED <<observed, stabilized, resolverVars>>

\* the statements of a session that has waited at line 262 find the registry
\* and the schema tables as they are committed when it goes on; its entities
\* are those it read before
ViewAfterWait(session) ==
    [session.view EXCEPT !.registry = registry, !.calls = regCalls, !.last = lastRegister,
                         !.schema = FreshSession(schema), !.proposals = proposals]

Executed(session) ==
    IF session.waits
    THEN [session EXCEPT
              !.view = ViewAfterWait(session),
              !.db = replace_extracted_records(ViewAfterWait(session),
                         session.conversation_id, session.result, session.mode,
                         session.embedder)]
    ELSE session

\* the rows of a table after the commit of a session: the rows the session
\* updated, the rows others have committed meanwhile, the rows the session added
MergedRows(current, found, rows) ==
    [i \in 1..Len(found) |-> IF rows[i] # found[i] THEN rows[i] ELSE current[i]]
        \o AddedRows(found, current) \o AddedRows(found, rows)

\* the rows of a conversation table after the commit of a session: its delete
\* statement saw the rows that were committed when it ran
ReplacedRows(current, session, rows) ==
    (IF session.stale THEN current ELSE DeleteOf(current, session.conversation_id))
        \o RowsOf(rows, session.conversation_id)

\* db.commit() of the run that began first
CommitSession(session) ==
    /\ entities' = MergedRows(entities, SubSeq(session.view.entities, 1, Len(entities)),
                              session.db.entities)
    /\ facts' = ReplacedRows(facts, session, session.db.facts)
    /\ relations' = ReplacedRows(relations, session, session.db.relations)
    /\ links' = ReplacedRows(links, session, session.db.links)
    /\ events' = ReplacedRows(events, session, session.db.events)
    /\ audits' = ReplacedRows(audits, session, session.db.audits)
    /\ registry' = MergedRows(registry, SubSeq(session.view.registry, 1, Len(registry)),
                              session.db.registry)
    /\ regCalls' = session.db.calls
    /\ lastRegister' = session.db.last
    /\ schema' = [t \in DOMAIN schema |->
                     MergedRows(schema[t], session.view.schema[t], session.db.schema[t])]
    /\ proposals' = session.db.proposals
    /\ lastSchemaOp' = [op |-> "extract"]
    /\ lastRun' = [conversation_id |-> session.conversation_id,
                   first_id |-> Len(session.view.entities),
                   scans |-> session.db.scans, raised |-> FALSE,
                   extracted |-> session.result.entities,
                   hashed |-> session.embedder.hashed,
                   embedded |-> EmbeddingCalls(session.mode, session.embedder)]

CommitRun ==
    /\ pending # <<>>
    /\ CommitSession(Executed(pending[1]))
    /\ pending' = [k \in 1..(Len(pending) - 1) |-> [pending[k + 1] EXCEPT !.stale = TRUE]]
    /\ runs' = runs + 1
    /\ UNCHANGED <<observed, stabilized, resolverVars>>

NextOverlap ==
    \/ \E conversation_id \in Conversations, result \in ExtractionResults,
          embedder \in Embedders :
           BeginRun(conversation_id, result, embedder)
    \/ CommitRun

SpecOverlap == InitOverlap /\ [][NextOverlap]_vars

(***************************************************************************)
(* Claims on the predicate registry                                        *)
(***************************************************************************)
RECURSIVE SumFrequency(_, _)
SumFrequency(reg, ids) ==
    IF ids = {} THEN 0
    ELSE SumFrequency(reg, ids \ {CHOOSE i \in ids : TRUE}) + reg[CHOOSE i \in ids : TRUE].frequency

\* the entry matches the normalized value exactly, by alias, or by similarity
EntryMatches(entry, normalized) ==
    \/ entry.predicate = normalized
    \/ normalized \in NormalizedAliases(entry)
    \/ \E t \in {entry.predicate} \cup Range(entry.aliases) :
          RatGe(string_similarity(normalized, t), Rat(96, 100))

CallCreated(kind, normalized, decision) ==
    /\ Len(registry') = Len(registry) + 1
    /\ \A i \in DOMAIN registry : registry'[i] = registry[i]
    /\ registry'[Len(registry')].frequency = 1
    /\ registry'[Len(registry')].kind = kind
    /\ \A i \in EntriesOfKind(registry, kind) : ~EntryMatches(registry[i], normalized)
    /\ decision.created_new

CallIncremented(kind, normalized, decision) ==
    /\ Len(registry') = Len(registry)
    /\ \E i \in EntriesOfKind(registry, kind) :
          /\ registry'[i].frequency = registry[i].frequency + 1
          /\ registry'[i].predicate = registry[i].predicate
          /\ registry'[i].kind = kind
          /\ decision.canonical_predicate = registry[i].predicate
          /\ \A j \in DOMAIN registry \ {i} : registry'[j] = registry[j]
    /\ \E i \in EntriesOfKind(registry, kind) : EntryMatches(registry[i], normalized)
    /\ ~decision.created_new

CallAccounted(call) ==
    \/ CallCreated(call.kind, DefaultLabel(normalize_predicate_label(call.value), call.kind),
                   call.decision)
    \/ CallIncremented(call.kind, DefaultLabel(normalize_predicate_label(call.value), call.kind),
                       call.decision)

FrequenciesSumToCalls ==
    \A k \in PredicateKinds : SumFrequency(registry, EntriesOfKind(registry, k)) = regCalls[k]

\* C6: every register call either creates one entry with frequency 1, and only
\* when no entry of its kind matches the normalized value exactly, by alias or
\* by similarity >= 0.96, or increments exactly one entry of its kind by 1 and
\* returns that entry's predicate; the frequencies of a kind sum to the number
\* of register calls of that kind.
C6_RegisterAccounting ==
    [][CallAccounted(lastRegister') /\ FrequenciesSumToCalls']_vars

\* the three calls of test_registry_collapses_near_duplicate_predicates
C6_Witness ==
    /\ regCalls["fact_predicate"] = 3
    /\ \E i \in DOMAIN registry :
          /\ registry[i].predicate = "reported_revenue"
          /\ registry[i].frequency = 3
          /\ registry[i].aliases = <<"reported_revenuee">>
    /\ lastRegister.decision.reason = "similarity_threshold_match"

\* the entries of the other kinds are as they were before the call
OtherKindsUnchanged(call) ==
    \A i \in DOMAIN registry :
        registry[i].kind # call.kind => i \in DOMAIN registry' /\ registry'[i] = registry[i]

\* the entry the call returns is of the kind of the call
ReturnsOwnKind(call) ==
    /\ call.decision.kind = call.kind
    /\ call.decision.registry_entry_id \in DOMAIN registry'
    /\ registry'[call.decision.registry_entry_id].kind = call.kind

RegisterStep ==
    regCalls'["fact_predicate"] + regCalls'["relation_type"]
        = regCalls["fact_predicate"] + regCalls["relation_type"] + 1

\* C15: a register call with kind k leaves every entry of another kind as it
\* was and returns an entry of kind k, so that the same value registered under
\* fact_predicate and under relation_type is held by two distinct entries
C15_RegisterScopedByKind ==
    [][RegisterStep => OtherKindsUnchanged(lastRegister') /\ ReturnsOwnKind(lastRegister')]_vars

\* the same predicate registered under both kinds, the last call creating the
\* second entry
C15_Witness ==
    /\ lastRegister.kind # NoneVal
    /\ lastRegister.decision.created_new
    /\ \E i, j \in DOMAIN registry :
           /\ registry[i].predicate = registry[j].predicate
           /\ registry[i].kind = "fact_predicate"
           /\ registry[j].kind = "relation_type"
           /\ lastRegister.decision.registry_entry_id \in {i, j}

(***************************************************************************)
(* Claims on schema stabilization                                          *)
(***************************************************************************)
\* what the tables store as canonical_of
StoredCanonicalOf(sch) ==
    [t \in Range(SchemaTables) |-> [i \in DOMAIN sch[t] |-> sch[t][i].canonical_of_id]]

StabilizeStep == stabilized' = stabilized + 1

\* C7: a stabilization run that directly follows a stabilization run, with no
\* label or observation written in between, creates no proposal and changes
\* no label's canonical_of, in the same session or in a new one.
C7_SecondRunChangesNothing ==
    [][(StabilizeStep /\ lastSchemaOp.op = "stabilize")
          => /\ proposals' = proposals
             /\ StoredCanonicalOf(schema') = StoredCanonicalOf(schema)]_vars

\* C8: every label is canonical or points directly at a canonical label.
C8_CanonicalOfOneHop ==
    \A t \in Range(SchemaTables) : \A i \in DOMAIN schema[t] :
        schema[t][i].canonical_of_id # NoId
            => schema[t][schema[t][i].canonical_of_id[1]].canonical_of_id = NoId

NewProposals == {k \in DOMAIN proposals' : k > Len(proposals)}

\* a label's canonical_of is what it was, or what an auto-accepted proposal of
\* this run with that label as its merged side set
UnchangedButByAutoAccept(table, id) ==
    \/ schema'[table][id].canonical_of_id = schema[table][id].canonical_of_id
    \/ \E k \in NewProposals :
          /\ proposals'[k].table_name = table
          /\ proposals'[k].merged_id = id
          /\ proposals'[k].status = "auto_accepted"

ProposalAsClaimed(p) ==
    /\ RatGe(p.confidence, Rat(85, 100))
    /\ p.status = (IF RatGe(p.confidence, Rat(95, 100)) THEN "auto_accepted" ELSE "proposed")
    /\ p.status = "auto_accepted"
          => schema'[p.table_name][p.merged_id].canonical_of_id = SomeId(p.canonical_id)
    /\ p.status = "proposed"
          => /\ UnchangedButByAutoAccept(p.table_name, p.merged_id)
             /\ UnchangedButByAutoAccept(p.table_name, p.canonical_id)

\* C9: a created proposal is auto_accepted exactly when its similarity is at
\* least 0.95, proposed when it is in [0.85, 0.95), and none is created below
\* 0.85; after the run the merged label of every auto_accepted proposal stores
\* the canonical id as its canonical_of, and a proposed one leaves both labels'
\* canonical_of as they were.
C9_ProposalStatusAndMerge ==
    [][\A k \in NewProposals : ProposalAsClaimed(proposals'[k])]_vars

\* the order on labels of equal observation count, smaller-first on
\* <<tokens, length, text, id>> with the signs the caller gives
TieBreak(sign, c, m, text_c, text_m, id_c, id_m) ==
    IF token_count(c.label) # token_count(m.label)
    THEN sign * token_count(c.label) < sign * token_count(m.label)
    ELSE IF Len(c.label) # Len(m.label) THEN sign * Len(c.label) < sign * Len(m.label)
    ELSE IF text_c # text_m THEN StrLess(text_c, text_m)
    ELSE id_c < id_m

\* C10 as stated: higher observation count; on a tie fewer underscore tokens,
\* then the shorter label, then the lexically smaller label, then the smaller id.
CanonicalAsStated(rows, c, m) ==
    \/ rows[c].observations > rows[m].observations
    \/ /\ rows[c].observations = rows[m].observations
       /\ TieBreak(1, rows[c], rows[m], rows[c].label, rows[m].label, c, m)

\* C10 as the code decides: higher observation count; on a tie more underscore
\* tokens, then the longer label, then the lexically smaller lowercased label,
\* then the smaller id.
CanonicalAsAmended(rows, c, m) ==
    \/ rows[c].observations > rows[m].observations
    \/ /\ rows[c].observations = rows[m].observations
       /\ TieBreak(0 - 1, rows[c], rows[m], StrLower(rows[c].label), StrLower(rows[m].label), c, m)

\* C10 (as stated): the canonical side of every created proposal is the label
\* with the higher observation count, on a tie the one with fewer underscore
\* tokens, then the shorter, then the lexically smaller, then the smaller id.
C10_CanonicalSideAsStated ==
    [][\A k \in NewProposals :
          CanonicalAsStated(schema'[proposals'[k].table_name],
                            proposals'[k].canonical_id, proposals'[k].merged_id)]_vars

\* C10 (amended): the canonical side of every created proposal is the label
\* with the higher observation count, on a tie the one with more underscore
\* tokens, then the longer, then the one whose lowercased label is lexically
\* smaller, then the smaller id.
C10_CanonicalSideAmended ==
    [][\A k \in NewProposals :
          CanonicalAsAmended(schema'[proposals'[k].table_name],
                             proposals'[k].canonical_id, proposals'[k].merged_id)]_vars

\* a run has just proposed a pair of equal observation count whose sides differ
\* in the number of underscore tokens
C10_Witness ==
    /\ lastSchemaOp.op = "stabilize"
    /\ \E k \in DOMAIN proposals :
          /\ proposals[k].table_name = "schema_relations"
          /\ schema["schema_relations"][proposals[k].canonical_id].observations
                = schema["schema_relations"][proposals[k].merged_id].observations
          /\ token_count(proposals[k].canonical_label) > token_count(proposals[k].merged_label)

(***************************************************************************)
(* Claims on the entity resolver                                           *)
(***************************************************************************)
\* the assignment of the i-th entity of the batch
BatchAssignment(i) == AssignmentAt(plan, i - 1)

SameNameAndType(i, j) ==
    /\ normalize_entity_text(batch[i].name) # ""
    /\ normalize_entity_text(batch[i].name) = normalize_entity_text(batch[j].name)
    /\ type_key(batch[i].type_label) = type_key(batch[j].type_label)

\* C3: in every batch handed to resolve, two entities whose names normalize to
\* the same non-empty text and whose type keys are equal get the same
\* canonical_cluster_index, and both assignments carry confidence 1.0
C3_SameNameSameCluster ==
    \A i, j \in DOMAIN batch :
        SameNameAndType(i, j) =>
            /\ BatchAssignment(i).canonical_cluster_index
                 = BatchAssignment(j).canonical_cluster_index
            /\ RatEq(BatchAssignment(i).confidence, One)
            /\ RatEq(BatchAssignment(j).confidence, One)

\* the only entity of the batch with its type key
OnlyOfItsType(i) ==
    \A j \in DOMAIN batch : j # i => type_key(batch[j].type_label) # type_key(batch[i].type_label)

ArrivalOrders(n) == {p \in [1..n -> 1..n] : \A i, j \in 1..n : p[i] = p[j] => i = j}

\* the batch in the arrival order p
Rearranged(p) == [i \in DOMAIN batch |-> batch[p[i]]]

\* resolve placed every entity of the batch in one cluster
InOneCluster(resolved) ==
    /\ resolved.assignments # <<>>
    /\ \A i \in DOMAIN resolved.assignments :
          resolved.assignments[i].canonical_cluster_index = 0

CanonicalNames(resolved) ==
    {resolved.assignments[i].canonical_name : i \in DOMAIN resolved.assignments}

SameCanonicalName(resolved, rearranged) ==
    (InOneCluster(resolved) /\ InOneCluster(rearranged))
        => CanonicalNames(resolved) = CanonicalNames(rearranged)

\* C11: when resolve places the entities of the batch in one cluster, the
\* canonical name of that cluster is the same for every arrival order of the
\* same entities that also ends in one cluster
C11_CanonicalNameOrderFree ==
    \A hashed \in HashSimilarities :
        plan = resolve(batch, hashed) =>
            \A p \in ArrivalOrders(Len(batch)) :
                SameCanonicalName(plan, resolve(Rearranged(p), hashed))

\* the canonical name of an assignment and its known aliases, those that
\* normalize to the empty text left out
NamesOf(assignment) ==
    {name \in {assignment.canonical_name} \cup Range(assignment.known_aliases) :
        NormalizedNames[name] # ""}

\* C12: for every assignment of the plan resolve returned, resolve_reference
\* with the assignment's canonical name or one of its known aliases, and the
\* assignment's type, returns the assignment's canonical_cluster_index
C12_ReferenceReturnsOwnCluster ==
    \A i \in DOMAIN plan.assignments :
        \A name \in NamesOf(plan.assignments[i]) :
            resolve_reference(plan, name, plan.assignments[i].type_label)
                = SomeId(plan.assignments[i].canonical_cluster_index)

(***************************************************************************)
(* Claims on the extraction run                                            *)
(***************************************************************************)
Unmerged(id) == entities[id].merged_into_id = NoId

\* C1: after any sequence of extraction runs every entity with a merged_into_id
\* points at an entity that has none: merge chains are one hop long
C1_MergeChainsOneHop ==
    \A id \in DOMAIN entities :
        ~Unmerged(id) => Unmerged(entities[id].merged_into_id[1])

\* lowercased and whitespace-collapsed
Folded(text) == JoinWith(" ", Split(StrLower(text)))

\* C2: after any sequence of extraction runs, reruns of a conversation included,
\* no two unmerged entities of the same case-insensitive type have canonical
\* names that are equal after lowercasing and whitespace collapsing
C2_NoDuplicateCanonicals ==
    \A i, j \in DOMAIN entities :
        (i # j /\ Unmerged(i) /\ Unmerged(j)
               /\ StrLower(entities[i].type_label) = StrLower(entities[j].type_label))
            => Folded(entities[i].canonical_name) # Folded(entities[j].canonical_name)

\* C5: at the commit of an extraction run every fact subject and every relation
\* end the run persisted is an entity without a merged_into_id
C5_ReferencesUnmerged ==
    ~lastRun.raised =>
        /\ \A k \in DOMAIN facts :
              facts[k].conversation_id = lastRun.conversation_id
                  => Unmerged(facts[k].subject_entity_id)
        /\ \A k \in DOMAIN relations :
              relations[k].conversation_id = lastRun.conversation_id
                  => /\ Unmerged(relations[k].from_entity_id)
                     /\ Unmerged(relations[k].to_entity_id)

TypeCompatible(local, candidate) ==
    \/ EntityType(local) = ""
    \/ EntityType(candidate) = ""
    \/ EntityType(local) = EntityType(candidate)

ExactCanonical(local, candidate) ==
    alias_key(local.canonical_name) = alias_key(candidate.canonical_name)

AliasIntersection(local, candidate) == AliasKeys(local) \cap AliasKeys(candidate) # {}

StringSimilar(local, candidate) ==
    /\ coarse_name_gate(local.canonical_name, candidate.canonical_name)
    /\ RatGe(best_alias_similarity(entity_aliases(local), entity_aliases(candidate)),
             Rat(96, 100))

\* the k-th candidate of a scan, as it was when the scan began
ScanCandidate(scan, k) == scan.entities[scan.candidates[k]]
ScanLocal(scan) == scan.entities[scan.local]

\* the pool of the scan holds an unmerged entity of another conversation that is
\* type-compatible with the local entity and matches it by canonical name or alias
PoolHasExactOrAlias(scan) ==
    \E k \in DOMAIN scan.candidates :
        /\ ScanCandidate(scan, k).merged_into_id = NoId
        /\ ScanCandidate(scan, k).conversation_id # lastRun.conversation_id
        /\ TypeCompatible(ScanLocal(scan), ScanCandidate(scan, k))
        /\ \/ ExactCanonical(ScanLocal(scan), ScanCandidate(scan, k))
           \/ AliasIntersection(ScanLocal(scan), ScanCandidate(scan, k))

MergedByExactOrAlias(scan) ==
    ~lastRun.raised /\ \E k \in DOMAIN scan.candidates :
        /\ entities[scan.local].merged_into_id = SomeId(scan.candidates[k])
        /\ \/ ExactCanonical(ScanLocal(scan), ScanCandidate(scan, k))
           \/ AliasIntersection(ScanLocal(scan), ScanCandidate(scan, k))
        /\ entities[scan.local].resolution_reason
             \in {"global_exact_canonical_match", "global_alias_match"}
        /\ RatGe(entities[scan.local].resolution_confidence, Rat(99, 100))

Qualifies(scan, k) ==
    /\ TypeCompatible(ScanLocal(scan), ScanCandidate(scan, k))
    /\ \/ ExactCanonical(ScanLocal(scan), ScanCandidate(scan, k))
       \/ AliasIntersection(ScanLocal(scan), ScanCandidate(scan, k))
       \/ StringSimilar(ScanLocal(scan), ScanCandidate(scan, k))

FirstQualifying(scan) ==
    CHOOSE k \in DOMAIN scan.candidates :
        Qualifies(scan, k) /\ \A j \in 1..(k - 1) : ~Qualifies(scan, j)

\* the reason and the confidence the rule the candidate satisfies gives
MergedAs(merged, local, candidate) ==
    IF ExactCanonical(local, candidate)
    THEN /\ merged.resolution_reason = "global_exact_canonical_match"
         /\ RatEq(merged.resolution_confidence, One)
    ELSE IF AliasIntersection(local, candidate)
    THEN /\ merged.resolution_reason = "global_alias_match"
         /\ RatEq(merged.resolution_confidence, Rat(99, 100))
    ELSE /\ merged.resolution_reason = "global_string_similarity"
         /\ RatGe(merged.resolution_confidence, Rat(96, 100))
         /\ RatEq(merged.resolution_confidence,
                  best_alias_similarity(entity_aliases(local), entity_aliases(candidate)))

MergedIntoFirstQualifying(scan, k) ==
    /\ entities[scan.local].merged_into_id = SomeId(scan.candidates[k])
    /\ MergedAs(entities[scan.local], ScanLocal(scan), ScanCandidate(scan, k))

AuditIds(audit) == {audit.survivor_entity_id} \cup Range(audit.merged_entity_ids)

\* every audit row and event row of the conversation of the last run comes from
\* that run: it names an entity the run created
FromLastRun ==
    /\ \A k \in DOMAIN audits :
           audits[k].conversation_id = lastRun.conversation_id =>
               \A id \in Range(audits[k].merged_entity_ids) : id > lastRun.first_id
    /\ \A k \in DOMAIN events :
           events[k].conversation_id = lastRun.conversation_id =>
               \E id \in Range(events[k].entity_ids) : id > lastRun.first_id

\* every audit row and event row references stored entities only
ReferencesExist ==
    /\ \A k \in DOMAIN audits : AuditIds(audits[k]) \subseteq DOMAIN entities
    /\ \A k \in DOMAIN events : Range(events[k].entity_ids) \subseteq DOMAIN entities

\* a completed run directly follows a completed run of the same conversation
\* with the same extracted entities and the same embedding similarities
CompletedRerun ==
    /\ runs' = runs + 1
    /\ ~lastRun.raised /\ ~lastRun'.raised
    /\ lastRun'.conversation_id = lastRun.conversation_id
    /\ lastRun'.extracted = lastRun.extracted
    /\ lastRun'.hashed = lastRun.hashed

CountsUnchanged ==
    /\ Len(RowsOf(audits', lastRun'.conversation_id))
           = Len(RowsOf(audits, lastRun'.conversation_id))
    /\ Len(RowsOf(events', lastRun'.conversation_id))
           = Len(RowsOf(events, lastRun'.conversation_id))

\* the rows of the other conversations are left alone by a run
OthersUntouched ==
    runs' = runs + 1 =>
        /\ DeleteOf(audits', lastRun'.conversation_id)
               = DeleteOf(audits, lastRun'.conversation_id)
        /\ DeleteOf(events', lastRun'.conversation_id)
               = DeleteOf(events, lastRun'.conversation_id)

\* C13: after every completed extraction run of a conversation, the merge-audit
\* rows and the resolution-event rows stored for it are those of that run: none
\* of an earlier run survives, the rows of other conversations are untouched,
\* a rerun with the same extractor output leaves their counts unchanged, and
\* every row references stored entities only
C13_AuditsAndEventsReplaced ==
    /\ [](~lastRun.raised => FromLastRun)
    /\ []ReferencesExist
    /\ [][OthersUntouched]_vars
    /\ [][CompletedRerun => CountsUnchanged]_vars

\* a completed rerun whose first run left merge-audit rows behind
C13_Witness ==
    /\ runs = 2
    /\ ~lastRun.raised
    /\ lastRun.first_id = Len(lastRun.extracted)
    /\ \A k \in 1..lastRun.first_id :
           /\ entities[k].conversation_id = lastRun.conversation_id
           /\ entities[k].name = lastRun.extracted[k].name
    /\ \E k \in 1..lastRun.first_id : entities[k].merged_into_id # NoId
    /\ \E k \in DOMAIN audits : audits[k].conversation_id = lastRun.conversation_id
    /\ \E k \in DOMAIN events :
           /\ events[k].conversation_id = lastRun.conversation_id
           /\ events[k].event_type = "alias_add"

(***************************************************************************)
(* Claims on the disambiguation oracle                                     *)
(***************************************************************************)
\* the provider answered with an object whose same_entity member is true
ExplicitTrue(call) ==
    /\ call.settings.enable
    /\ call.settings.openai_api_key \notin {NoneVal, ""}
    /\ call.reply.transport = "ok"
    /\ call.reply.body = "same_entity_true"

FailedClosed(call) ==
    /\ call.local = NoMatch \/ call.local[1] # "llm_disambiguation"
    /\ call.global.reason # "global_llm_disambiguation"
    /\ call.local_raises = NoneVal
    /\ call.global_raises = NoneVal

\* C16: for every outcome of the oracle call other than an explicit
\* same_entity = true answer (oracle disabled, no API key, network error,
\* timeout while connecting or while reading, a response that is not JSON or
\* wrongly shaped) the borderline candidate is not accepted, no merge with
\* reason llm_disambiguation or global_llm_disambiguation is made, and no
\* exception leaves the call
C16_OracleFailsClosed ==
    (oracle.compared /\ ~ExplicitTrue(oracle)) => FailedClosed(oracle)

(***************************************************************************)
(* Claims on the embedders                                                 *)
(***************************************************************************)
\* _entity_embedding_vector: the stored vector, or the hash of the entity text
VectorSource(entity) == IF entity.embedding = "none" THEN "hash" ELSE entity.embedding

\* the scan reached the k-th candidate and no rule on names settled it, so that
\* the vectors of the two entities were compared (lines 658-659)
ComparedByEmbedding(scan, k) ==
    /\ \A j \in 1..(k - 1) : ~Qualifies(scan, j)
    /\ TypeCompatible(ScanLocal(scan), ScanCandidate(scan, k))
    /\ ~ExactCanonical(ScanLocal(scan), ScanCandidate(scan, k))
    /\ ~AliasIntersection(ScanLocal(scan), ScanCandidate(scan, k))
    /\ coarse_name_gate(ScanLocal(scan).canonical_name, ScanCandidate(scan, k).canonical_name)
    /\ ~StringSimilar(ScanLocal(scan), ScanCandidate(scan, k))

\* C17: within one extraction run every embedding vector that is written comes
\* from the same embedder (a provider failure on any call makes every vector
\* of the run a hash-fallback vector), and the global matcher never compares a
\* provider vector with a hash-fallback vector
C17_OneEmbedderPerRun ==
    /\ \A i, j \in DOMAIN lastRun.embedded : lastRun.embedded[i] = lastRun.embedded[j]
    /\ \A n \in DOMAIN lastRun.scans :
           \A k \in DOMAIN lastRun.scans[n].candidates :
               ComparedByEmbedding(lastRun.scans[n], k) =>
                   VectorSource(ScanLocal(lastRun.scans[n]))
                       = VectorSource(ScanCandidate(lastRun.scans[n], k))

(***************************************************************************)
(* Claims on the transaction of a run                                      *)
(***************************************************************************)
RunStep == runs' = runs + 1

\* what a commit makes visible
Committed ==
    <<entities, facts, relations, audits, events, links, registry, schema, proposals>>

\* the run that completed shows in the store: its entity rows and the links of
\* its conversation
Visible ==
    /\ Len(entities') > Len(entities)
    /\ \A k \in (Len(entities) + 1)..Len(entities') :
           entities'[k].conversation_id = lastRun'.conversation_id
    /\ RowsOf(links', lastRun'.conversation_id) # <<>>

ChainStored ==
    \E id \in DOMAIN entities :
        /\ entities[id].merged_into_id # NoId
        /\ entities[entities[id].merged_into_id[1]].merged_into_id # NoId

\* C19: an extraction run that starts on stored entities with a merged_into
\* chain of more than one hop fails as a whole and commits nothing
C19_ChainFailsRun ==
    [][(RunStep /\ ChainStored) => (lastRun'.raised /\ Committed' = Committed)]_vars

(***************************************************************************)
(* Claims on runs served at the same time                                  *)
(***************************************************************************)
\* no run of a conversation has flushed its deletes while another run of that
\* conversation has not committed
NoOverlap ==
    \A i, j \in DOMAIN pending :
        i # j => pending[i].conversation_id # pending[j].conversation_id

\* the links, merge audits and events of the conversation of the last commit
\* are those of one run
RowsOfOneRun ==
    /\ FromLastRun
    /\ \A k \in DOMAIN links :
           (links[k].conversation_id = lastRun.conversation_id
                /\ entities[links[k].entity_id].conversation_id = lastRun.conversation_id)
               => links[k].entity_id > lastRun.first_id

\* C20: two extraction runs of one conversation never overlap: no step of one
\* runs between the delete of the previous records and the commit of the
\* other, and when both have finished the conversation holds the facts,
\* relations, links, merge audits and events of exactly one run
C20_RunsSerialized ==
    /\ NoOverlap
    /\ (pending = <<>> /\ lastRun # NoRun /\ ~lastRun.raised) => RowsOfOneRun

\* the session inserts a registry entry or a schema label that a pending run of
\* another conversation has inserted, and neither was stored before
SameUnseen(session) ==
    \E k \in DOMAIN pending :
        /\ pending[k].conversation_id # session.conversation_id
        /\ ~session.waits
        /\ \/ AddedEntries(session) \cap AddedEntries(pending[k]) # {}
           \/ \E t \in DOMAIN schema :
                  AddedLabels(session, t) \cap AddedLabels(pending[k], t) # {}

\* the run of the request has executed its statements in this step
RunOf(conversation_id, result, embedder) ==
    /\ BeginRun(conversation_id, result, embedder)
    /\ SameUnseen(NewSession(conversation_id, result, embedder))

\* no two entries of the registry have the same kind and predicate, no two rows
\* of a schema table the same label
OneEntryEach ==
    /\ \A i, j \in DOMAIN registry :
           (registry[i].kind = registry[j].kind
                /\ registry[i].predicate = registry[j].predicate) => i = j
    /\ \A t \in DOMAIN schema : \A i, j \in DOMAIN schema[t] :
           schema[t][i].label = schema[t][j].label => i = j

\* C21: when two runs of different conversations interleave and both register
\* the same predicate, relation type or schema label that was not stored
\* before, neither of them fails on the duplicate key, and the store ends
\* with one entry for that (kind, predicate) pair or label
C21_SameUnseenNeverRaises ==
    [][/\ OneEntryEach'
       /\ \A conversation_id \in Conversations, result \in ExtractionResults,
             embedder \in Embedders :
               RunOf(conversation_id, result, embedder) => ~lastRun'.raised]_vars

(***************************************************************************)
(* Claims on stabilization jobs served at the same time                    *)
(***************************************************************************)
\* at most one stabilization run is active
OneJobActive == Len(pending) <= 1

\* at most one proposal for a proposal type and an unordered pair of label ids
OneProposalPerPair ==
    \A i, j \in DOMAIN proposals :
        (/\ proposals[i].proposal_type = proposals[j].proposal_type
         /\ pair_key(proposals[i].canonical_id, proposals[i].merged_id)
              = pair_key(proposals[j].canonical_id, proposals[j].merged_id)) => i = j

\* C22: no two stabilization runs are active at the same time, so that in every
\* state at most one proposal exists for a proposal type and an unordered pair
\* of label ids
C22_OneStabilizationAtATime == OneJobActive /\ OneProposalPerPair

(***************************************************************************)
(* Claims on global merges served at the same time                         *)
(***************************************************************************)
\* the alias keys of a list of names
KeysOf(names) == {alias_key(name) : name \in Range(names)} \ {""}

\* the reasons of a global merge
GlobalReasons ==
    {"global_exact_canonical_match", "global_alias_match", "global_string_similarity",
     "global_embedding_similarity", "global_llm_disambiguation"}

\* the stored entity was merged by global matching, and is the survivor of no
\* merge itself: its known aliases are those it was merged with
GloballyMerged(i) ==
    /\ entities[i].merged_into_id # NoId
    /\ entities[i].resolution_reason \in GlobalReasons
    /\ \A j \in DOMAIN entities : entities[j].merged_into_id # SomeId(i)

\* every survivor of a global merge knows the name and the aliases of the
\* entity merged into it
ContributedKept ==
    \A i \in DOMAIN entities :
        GloballyMerged(i) =>
            KeysOf(<<entities[i].name>> \o entities[i].known_aliases)
                \subseteq KeysOf(entities[entities[i].merged_into_id[1]].known_aliases)

\* no stored entity loses an alias it had
AliasesKept ==
    \A i \in DOMAIN entities :
        KeysOf(entities[i].known_aliases) \subseteq KeysOf(entities'[i].known_aliases)

\* C23: when two runs of different conversations accept global merges into the
\* same survivor at the same time, the survivor's known aliases after both
\* commits hold, case-insensitively, every alias it had before and every alias
\* the two merged entities contributed
C23_NoAliasUpdateLost == [][AliasesKept /\ ContributedKept']_vars

(***************************************************************************)
(* Claims on string_similarity                                             *)
(***************************************************************************)
Called == scored.left # NoneVal

\* the result is the same with the arguments exchanged
Symmetric == RatEq(scored.similarity, string_similarity(scored.right, scored.left))

\* the result lies in [0, 1]
InUnitInterval == RatGe(scored.similarity, Zero) /\ RatGe(One, scored.similarity)

\* 1 for equal normalized forms
OneWhenEqual ==
    normalize_entity_text(scored.left) = normalize_entity_text(scored.right)
        => RatEq(scored.similarity, One)

\* 0 where a normalized form is empty
ZeroWhenEmpty ==
    (normalize_entity_text(scored.left) = "" \/ normalize_entity_text(scored.right) = "")
        => RatEq(scored.similarity, Zero)

\* C24: string_similarity(a, b) equals string_similarity(b, a) and lies in
\* [0, 1]; it is 1 when the normalized forms are equal and 0 when either
\* normalized form is empty
C24_SimilaritySymmetric ==
    Called => (Symmetric /\ InUnitInterval /\ OneWhenEqual /\ ZeroWhenEmpty)

(***************************************************************************)
(* Claims on the placing of an entity by resolve                           *)
(***************************************************************************)
\* the clusters resolve has built when it comes to the last entity of the batch
ClustersBefore(extracted, hashed) ==
    ResolveFrom(SubSeq(extracted, 1, Len(extracted) - 1), 1, <<>>, hashed)

\* the clusters of the type key of the entity that match it
Matching(clusters, entity, hashed) ==
    {k \in DOMAIN clusters :
        /\ clusters[k].type_key = type_key(entity.type_label)
        /\ match(clusters[k], entity, hashed) # NoMatch}

\* the cluster the plan gives to the last entity, counted from 1
PlacedIn(extracted, resolved) ==
    resolved.assignments[Len(extracted)].canonical_cluster_index + 1

\* the last entity of the batch is in the matching cluster of the highest
\* confidence, in the earliest of those; with no matching cluster it is alone in
\* a new one
PlacedByConfidence(extracted, resolved, clusters, matching, hashed) ==
    IF matching = {}
    THEN /\ PlacedIn(extracted, resolved) = Len(clusters) + 1
         /\ Len(resolved.canonical_cluster_indexes) = Len(clusters) + 1
         /\ \A i \in 1..(Len(extracted) - 1) :
                resolved.assignments[i].canonical_cluster_index + 1 <= Len(clusters)
    ELSE /\ PlacedIn(extracted, resolved) \in matching
         /\ Len(resolved.canonical_cluster_indexes) = Len(clusters)
         /\ \A k \in matching :
                LET mine == match(clusters[PlacedIn(extracted, resolved)],
                                  extracted[Len(extracted)], hashed)[2]
                    other == match(clusters[k], extracted[Len(extracted)], hashed)[2]
                IN  \/ RatGt(mine, other)
                    \/ RatEq(mine, other) /\ PlacedIn(extracted, resolved) <= k

PlacedRight(extracted, resolved, hashed) ==
    PlacedByConfidence(extracted, resolved, ClustersBefore(extracted, hashed),
                       Matching(ClustersBefore(extracted, hashed), extracted[Len(extracted)],
                                hashed),
                       hashed)

\* C25: resolve adds an entity that matches several clusters of its type key to
\* the one of the highest match confidence, among equals to the one created
\* first, and opens a new cluster of one exactly when no cluster of its type
\* key matches
C25_PlacedInBestCluster ==
    [][\A hashed \in HashSimilarities :
          plan' = resolve(batch', hashed) => PlacedRight(batch', plan', hashed)]_vars

\* an entity that matches two clusters of its type key with different
\* confidences has been placed in the later one, in a batch where another entity
\* opened a cluster
C25_Witness ==
    /\ Len(batch) = MaxBatch
    /\ \E hashed \in HashSimilarities :
           /\ plan = resolve(batch, hashed)
           /\ \E k \in Matching(ClustersBefore(batch, hashed), batch[Len(batch)], hashed) :
                  /\ k < PlacedIn(batch, plan)
                  /\ RatGt(match(ClustersBefore(batch, hashed)[PlacedIn(batch, plan)],
                                 batch[Len(batch)], hashed)[2],
                           match(ClustersBefore(batch, hashed)[k],
                                 batch[Len(batch)], hashed)[2])
           /\ Matching(ClustersBefore(SubSeq(batch, 1, Len(batch) - 1), hashed),
                       batch[Len(batch) - 1], hashed) = {}

(***************************************************************************)
(* Claims on the pool of the global matcher                                *)
(***************************************************************************)
\* the candidates the query of the last run returned: the pool of its first scan
QueriedPool ==
    IF lastRun.scans = <<>> THEN {} ELSE Range(lastRun.scans[1].candidates)

\* the entities the last run inserted
BatchIds == {id \in DOMAIN entities : id > lastRun.first_id}

\* the survivor of the local entity of the scan is an entity the query returned,
\* unmerged when the scan began, not of the batch and not of the conversation
SurvivorFromPool(scan) ==
    entities[scan.local].merged_into_id # NoId =>
        LET survivor == entities[scan.local].merged_into_id[1]
        IN  /\ survivor \in QueriedPool
            /\ scan.entities[survivor].merged_into_id = NoId
            /\ survivor \notin BatchIds
            /\ scan.entities[survivor].conversation_id # lastRun.conversation_id

\* the pool of the scan offers no entity of the batch
OffersNoLocal(scan) == Range(scan.candidates) \cap BatchIds = {}

\* C26: every survivor global matching assigns to a local entity of a batch is
\* an entity of the queried candidate pool, unmerged and neither of the batch
\* nor of the conversation, and after an acceptance the pool offers the
\* survivor, not the local entity just merged, to the later entities of the batch
C26_SurvivorsFromQueriedPool ==
    ~lastRun.raised =>
        \A n \in DOMAIN lastRun.scans :
            SurvivorFromPool(lastRun.scans[n]) /\ OffersNoLocal(lastRun.scans[n])

\* both stored entities have a type label, and the labels differ also when
\* lowercased
DifferentTypes(left, right) ==
    /\ left.type_label # ""
    /\ right.type_label # ""
    /\ Lower(left.type_label) # Lower(right.type_label)

\* C27: global matching never merges a local entity into a candidate when both
\* have type labels and these differ case-insensitively, whatever their names,
\* aliases and similarities
C27_NoMergeAcrossTypes ==
    \A i \in DOMAIN entities :
        (entities[i].merged_into_id # NoId /\ entities[i].resolution_reason \in GlobalReasons)
            => ~DifferentTypes(entities[i], entities[entities[i].merged_into_id[1]])

\* a run whose pool held a candidate of another type with the canonical name of
\* the local entity
C27_Witness ==
    /\ ~lastRun.raised
    /\ \E n \in DOMAIN lastRun.scans :
           \E k \in DOMAIN lastRun.scans[n].candidates :
               /\ DifferentTypes(ScanLocal(lastRun.scans[n]),
                                 ScanCandidate(lastRun.scans[n], k))
               /\ ExactCanonical(ScanLocal(lastRun.scans[n]),
                                 ScanCandidate(lastRun.scans[n], k))
               /\ entities[lastRun.scans[n].local].merged_into_id
                      # SomeId(lastRun.scans[n].candidates[k])

(***************************************************************************)
(* Claims on the resolution events of a run                                *)
(***************************************************************************)
\* the plan the resolver returned to the last run
LastPlan ==
    resolve(normalize_extraction_payload([entities |-> lastRun.extracted, facts |-> <<>>,
                                          relations |-> <<>>]).entities,
            lastRun.hashed)

\* the entity row of the assignment
RowOf(assignment) == lastRun.first_id + assignment.extracted_index + 1

\* the stored events of the last run that are about the entity of the
\* assignment: the entity is the last of the ids of its events
EventsAbout(assignment, event_type) ==
    {k \in DOMAIN events :
        /\ events[k].conversation_id = lastRun.conversation_id
        /\ events[k].event_type = event_type
        /\ events[k].entity_ids # <<>>
        /\ events[k].entity_ids[Len(events[k].entity_ids)] = RowOf(assignment)}

\* the canonical entity of the assignment: the entity its row is merged into,
\* or the row itself
CanonicalRow(assignment) ==
    IF entities[RowOf(assignment)].merged_into_id = NoId THEN RowOf(assignment)
    ELSE entities[RowOf(assignment)].merged_into_id[1]

\* the aliases of the extracted entity that are not blank, and not the
\* canonical name when case and whitespace are left aside
ObservedAliases(assignment) ==
    {alias \in Range(lastRun.extracted[assignment.extracted_index + 1].aliases) :
        /\ alias_key(Strip(alias)) # ""
        /\ alias_key(Strip(alias))
             # alias_key(entities[CanonicalRow(assignment)].canonical_name)}

\* the alias_add events of the assignment for the alias, case and whitespace
\* left aside: the event may spell it as the name of the entity does
EventsOfAlias(assignment, alias) ==
    {k \in EventsAbout(assignment, "alias_add") :
        \E other \in Range(lastRun.extracted[assignment.extracted_index + 1].aliases)
                        \cup {lastRun.extracted[assignment.extracted_index + 1].name} :
            /\ alias_key(Strip(other)) = alias_key(Strip(alias))
            /\ events[k].rationale = "alias_observed:" \o Strip(other)}

OneMatchEvent(assignment) == Cardinality(EventsAbout(assignment, "match")) = 1

MergeEventIffMerged(assignment) ==
    IF assignment.merged
    THEN /\ Cardinality(EventsAbout(assignment, "merge")) = 1
         /\ \A k \in EventsAbout(assignment, "merge") :
                events[k].entity_ids = <<CanonicalRow(assignment), RowOf(assignment)>>
    ELSE EventsAbout(assignment, "merge") = {}

OneEventPerAlias(assignment) ==
    \A alias \in ObservedAliases(assignment) :
        Cardinality(EventsOfAlias(assignment, alias)) = 1

\* C28: the resolution events of a run hold exactly one match event for every
\* assignment of the resolver, exactly one merge event for every locally merged
\* assignment, with the entity ids canonical id, merged id, and none for an
\* assignment that is not merged, and exactly one alias_add event for every
\* distinct alias of the extracted entity that differs from the canonical name
\* when case and whitespace are left aside
C28_EventsPerAssignment ==
    ~lastRun.raised =>
        \A i \in DOMAIN LastPlan.assignments :
            /\ OneMatchEvent(LastPlan.assignments[i])
            /\ MergeEventIffMerged(LastPlan.assignments[i])
            /\ OneEventPerAlias(LastPlan.assignments[i])

\* a run with a locally merged assignment and an assignment that is not merged
\* and has an alias other than the canonical name
C28_Witness ==
    /\ ~lastRun.raised
    /\ \E i \in DOMAIN LastPlan.assignments : LastPlan.assignments[i].merged
    /\ \E i \in DOMAIN LastPlan.assignments :
           /\ ~LastPlan.assignments[i].merged
           /\ ObservedAliases(LastPlan.assignments[i]) # {}

(***************************************************************************)
(* Claims on the stability of the registry                                 *)
(***************************************************************************)
\* the entries of the kind that hold the label as predicate or as alias
Holders(reg, kind, label) ==
    {i \in DOMAIN reg :
        /\ reg[i].kind = kind
        /\ reg[i].predicate = label \/ label \in Range(reg[i].aliases)}

\* no label is predicate or alias of two entries of one kind
OneHolder(reg) ==
    \A kind \in PredicateKinds, label \in RegistryLabels :
        Cardinality(Holders(reg, kind, label)) <= 1

\* an entry that holds a label holds it after the step, under the same predicate
HoldersKept ==
    \A kind \in PredicateKinds, label \in RegistryLabels :
        \A i \in Holders(registry, kind, label) :
            /\ i \in Holders(registry', kind, label)
            /\ registry'[i].predicate = registry[i].predicate

\* the call returns the predicate of the entry that holds its label
ReturnsHolder(call, label) ==
    /\ Holders(registry', call.kind, label) # {}
    /\ \A i \in Holders(registry', call.kind, label) :
           call.decision.canonical_predicate = registry'[i].predicate

\* C29: the registry canonicalizes stably: once register(value, kind) has
\* returned the canonical predicate c, every later call with the value and the
\* kind returns c, whatever is registered in between; no normalized label is
\* ever predicate or alias of two entries of one kind. Step by step: a call
\* returns the predicate of the one entry that holds its label, and a holder
\* stays the holder under the same predicate
C29_CanonicalStable ==
    [][RegisterStep =>
          /\ OneHolder(registry')
          /\ HoldersKept
          /\ ReturnsHolder(lastRegister',
                           DefaultLabel(normalize_predicate_label(lastRegister'.value),
                                        lastRegister'.kind))]_vars

\* a value that was added as an alias is registered again after an entry of
\* another label of the kind was created
C29_Witness ==
    /\ lastRegister.kind # NoneVal
    /\ lastRegister.decision.reason = "alias_match"
    /\ registry[lastRegister.decision.registry_entry_id].frequency = 3
    /\ \E i \in DOMAIN registry :
           /\ i > lastRegister.decision.registry_entry_id
           /\ registry[i].kind = lastRegister.kind

(***************************************************************************)
(* Claims on the shape of the plan                                         *)
(***************************************************************************)
\* one assignment for every entity of the batch, in the order of extracted_index
OneAssignmentEach ==
    /\ Len(plan.assignments) = Len(batch)
    /\ \A i \in DOMAIN plan.assignments : plan.assignments[i].extracted_index = i - 1

\* the assignments of the cluster
AssignedTo(cluster_index) ==
    {i \in DOMAIN plan.assignments :
        plan.assignments[i].canonical_cluster_index = cluster_index}

NotMergedIn(cluster_index) ==
    {i \in AssignedTo(cluster_index) : ~plan.assignments[i].merged}

\* the assignment that is not merged is the canonical one
IsCanonical(i) ==
    /\ RatEq(plan.assignments[i].confidence, One)
    /\ plan.assignments[i].reason_for_merge = NoneVal
    /\ batch[plan.assignments[i].extracted_index + 1].name = plan.assignments[i].canonical_name

OneCanonicalIn(cluster_index) ==
    /\ Cardinality(NotMergedIn(cluster_index)) = 1
    /\ \A i \in NotMergedIn(cluster_index) : IsCanonical(i)
    /\ \A i \in AssignedTo(cluster_index) \ NotMergedIn(cluster_index) :
           plan.assignments[i].reason_for_merge # NoneVal
    /\ \A i, j \in AssignedTo(cluster_index) :
           plan.assignments[i].canonical_name = plan.assignments[j].canonical_name

=============================================================================
